---- MODULE Spec2Model ----
(***************************************************************************)
(* Model of the Bayesian belief engine (core/bayesian_engine.py) and of    *)
(* the orchestration loop that drives it (core/crawler.py).                *)
(*                                                                         *)
(* Probabilities are exact rationals [n, d] in lowest terms; the source    *)
(* works in IEEE doubles, so every equality below is an equality of the    *)
(* exact values the doubles approximate.                                   *)
(***************************************************************************)
EXTENDS Integers, Sequences, FiniteSets, TLC

(***************************************************************************)
(* Bounds of the model                                                     *)
(***************************************************************************)
MaxUpdates == 2

NumTasks == 2

MaxConcurrent == 2

(***************************************************************************)
(* Exact rational arithmetic                                               *)
(***************************************************************************)
Abs(x) == IF x < 0 THEN -x ELSE x

RECURSIVE GCD(_, _)
GCD(a, b) == IF b = 0 THEN a ELSE GCD(b, a % b)

Rat(n, d) ==
    LET g == GCD(Abs(n), Abs(d))
        s == IF d < 0 THEN -1 ELSE 1
    IN  [n |-> (s * n) \div g, d |-> (s * d) \div g]

Zero == [n |-> 0, d |-> 1]

One == [n |-> 1, d |-> 1]

Half == [n |-> 1, d |-> 2]

RAdd(x, y) ==
    LET g == GCD(x.d, y.d)
    IN  Rat(x.n * (y.d \div g) + y.n * (x.d \div g), (x.d \div g) * y.d)

RSub(x, y) == RAdd(x, [n |-> -(y.n), d |-> y.d])

RMul(x, y) ==
    LET a == Rat(x.n, y.d)
        b == Rat(y.n, x.d)
    IN  [n |-> a.n * b.n, d |-> a.d * b.d]

RDiv(x, y) == RMul(x, Rat(y.d, y.n))

RLt(x, y) == RSub(x, y).n < 0

RLe(x, y) == RSub(x, y).n <= 0

RMax(x, y) == IF RLt(x, y) THEN y ELSE x

RMin(x, y) == IF RLt(y, x) THEN y ELSE x

RECURSIVE RSum(_)
RSum(s) == IF s = <<>> THEN Zero ELSE RAdd(Head(s), RSum(Tail(s)))

(***************************************************************************)
(* Text: a str is a tuple of one-character strings                         *)
(***************************************************************************)
UpperToLower ==
    [c \in {"S", "Y", "N", "A", "F", "E"} |->
        CASE c = "S" -> "s" [] c = "Y" -> "y" [] c = "N" -> "n"
          [] c = "A" -> "a" [] c = "F" -> "f" [] c = "E" -> "e"]

LowerChar(c) == IF c \in DOMAIN UpperToLower THEN UpperToLower[c] ELSE c

Lower(t) == [i \in 1..Len(t) |-> LowerChar(t[i])]

IsSpace(c) == c \in {" ", "\n", "\t"}

RECURSIVE LStrip(_)
LStrip(t) == IF t # <<>> /\ IsSpace(Head(t)) THEN LStrip(Tail(t)) ELSE t

RECURSIVE RStrip(_)
RStrip(t) ==
    IF t # <<>> /\ IsSpace(t[Len(t)]) THEN RStrip(SubSeq(t, 1, Len(t) - 1)) ELSE t

Strip(t) == RStrip(LStrip(t))

\* Python's `p in t` on str
Contains(t, p) ==
    \E i \in 0..(Len(t) - Len(p)) : SubSeq(t, i + 1, i + Len(p)) = p

(***************************************************************************)
(* Data model (core/data_models.py)                                        *)
(***************************************************************************)
\* Optional[float]
None == [some |-> FALSE, val |-> Zero]

Some(v) == [some |-> TRUE, val |-> v]

\* typed: domain and response_type are enum members, raw_response is a str;
\* the dataclasses do not check the types of these fields
ProbingScenario(id, domain, response_type) ==
    [scenario_id |-> id, domain |-> domain, response_type |-> response_type,
     typed |-> TRUE]

LLMResponse(scenario_id, raw_response, confidence_score) ==
    [scenario_id |-> scenario_id, raw_response |-> raw_response,
     confidence_score |-> confidence_score, typed |-> TRUE]

\* a scenario whose domain is a plain string: domain.value raises
UntypedScenario(id) ==
    [scenario_id |-> id, domain |-> "ethical_reasoning",
     response_type |-> "binary_choice", typed |-> FALSE]

\* a response whose raw_response is None: raw_response.lower() raises
UntypedResponse(scenario_id, confidence_score) ==
    [scenario_id |-> scenario_id, raw_response |-> <<>>,
     confidence_score |-> confidence_score, typed |-> FALSE]

\* one entry of a pattern table: pattern substring -> probability
Pat(pattern, probability) == [pattern |-> pattern, probability |-> probability]

\* a pattern table in insertion order; malformed marks a value that is not
\* a dict (a truthy non-dict such as a list, whose .items() raises)
Table(items) == [malformed |-> FALSE, items |-> items]

MalformedTable == [malformed |-> TRUE, items |-> <<Pat(<<>>, Zero)>>]

EmptyTable == Table(<<>>)

CognitiveHypothesis(id, prior, patterns) ==
    [hypothesis_id |-> id, prior_probability |-> prior,
     predicted_response_patterns |-> patterns]

\* CognitiveHypothesis.__post_init__: the range check on prior_probability
ValidPrior(p) == RLe(Zero, p) /\ RLe(p, One)

(***************************************************************************)
(* The scenarios, response texts and hypothesis objects of the model       *)
(***************************************************************************)
KeyEthical == "ethical_reasoning" \o "_" \o "binary_choice"

TSafe == <<"s", "a", "f", "e">>

TYes == <<"y", "e", "s">>

TextYesSafe == <<" ", "Y", "e", "s", " ", "S", "A", "F", "E", " ">>

TextSafe == <<"S", "a", "f", "e">>

TextNo == <<"n", "o">>

Scenarios ==
    [s \in {"s1", "s2"} |->
        IF s = "s1" THEN ProbingScenario("s1", "ethical_reasoning", "binary_choice")
                    ELSE ProbingScenario("s2", "logical_reasoning", "free_text")]

\* hypothesis objects that exist before any call: the static seed
StaticRefs == {"o1", "o2", "o3"}

\* hypothesis objects the generator may construct
GenRefs == {"g1", "g2", "g3", "g4", "g5"}

ObjRefs == StaticRefs \cup GenRefs

\* the fields of each hypothesis object that no code assigns after
\* construction; o3 carries the same hypothesis_id as o1
Obj(ref) ==
    CASE ref = "o1" -> CognitiveHypothesis("h1", Rat(2, 5),
                          [k \in {KeyEthical} |-> Table(<<Pat(TSafe, Rat(9, 10))>>)])
      [] ref = "o2" -> CognitiveHypothesis("h2", Rat(3, 5),
                          [k \in {KeyEthical} |->
                              Table(<<Pat(TYes, Rat(4, 5)), Pat(TSafe, Rat(1, 10))>>)])
      [] ref = "o3" -> CognitiveHypothesis("h1", Zero, [k \in {} |-> EmptyTable])
      [] ref = "g1" -> CognitiveHypothesis("n1", Rat(1, 5),
                          [k \in {KeyEthical} |-> Table(<<Pat(TSafe, Rat(9, 10))>>)])
      [] ref = "g2" -> CognitiveHypothesis("n2", Rat(1, 10),
                          [k \in {KeyEthical} |-> Table(<<Pat(TSafe, Rat(9, 10))>>)])
      [] ref = "g3" -> CognitiveHypothesis("n3", Rat(1, 10),
                          [k \in {KeyEthical} |-> Table(<<Pat(TSafe, Rat(2, 5))>>)])
      [] ref = "g4" -> CognitiveHypothesis("n4", Rat(1, 20), [k \in {} |-> EmptyTable])
      [] ref = "g5" -> CognitiveHypothesis("n5", Rat(1, 10),
                          [k \in {KeyEthical} |-> MalformedTable])

\* the (scenario, response) pairs update_beliefs is called with
Observations ==
    { [scenario |-> Scenarios["s1"],
       response |-> LLMResponse("s1", TextYesSafe, Some(Half))],
      [scenario |-> Scenarios["s1"], response |-> LLMResponse("s1", TextSafe, None)] }

(***************************************************************************)
(* BayesianEngine.calculate_likelihood                                     *)
(***************************************************************************)
scenario_key(scenario) == scenario.domain \o "_" \o scenario.response_type

\* dict.get(key, {})
GetPatterns(h, key) ==
    IF key \in DOMAIN h.predicted_response_patterns
    THEN h.predicted_response_patterns[key]
    ELSE EmptyTable

\* the for/break loop: probability of the first pattern, in table order,
\* whose lowercase form is a substring of the text; 0.5 when none is
\* variant: the last matching pattern wins
FirstMatch_Last(items, response_text) ==
    LET hits == {i \in DOMAIN items :
                    Contains(response_text, Lower(items[i].pattern))}
    IN  IF hits = {} THEN Half
        ELSE items[CHOOSE i \in hits : \A j \in hits : j <= i].probability

RECURSIVE FirstMatch(_, _)
FirstMatch(items, response_text) ==
    IF items = <<>> THEN Half
    ELSE IF Contains(response_text, Lower(Head(items).pattern))
         THEN Head(items).probability
         ELSE FirstMatch(Tail(items), response_text)

Blend(likelihood, c) ==
    RAdd(RMul(likelihood, c), RMul(RMul(likelihood, RSub(One, c)), Half))

\* variant: only the upper limit is applied
Clamp_NoFloor(likelihood) == RMin(Rat(999, 1000), likelihood)

Clamp(likelihood) == RMax(Rat(1, 1000), RMin(Rat(999, 1000), likelihood))

\* variant: a failure inside the computation yields the floor value
calculate_likelihood_FailsLow(h, scenario, response) ==
    LET patterns == GetPatterns(h, scenario_key(scenario))
        response_text == Strip(Lower(response.raw_response))
        matched == FirstMatch(patterns.items, response_text)
        likelihood == IF response.confidence_score.some
                      THEN Blend(matched, response.confidence_score.val)
                      ELSE matched
    IN  IF ~scenario.typed THEN Rat(1, 1000)
        ELSE IF patterns.items = <<>> THEN Half
        ELSE IF ~response.typed \/ patterns.malformed THEN Rat(1, 1000)
        ELSE Clamp(likelihood)

\* variant: the neutral value of a missing table is blended as well
calculate_likelihood_BlendsNeutral(h, scenario, response) ==
    LET patterns == GetPatterns(h, scenario_key(scenario))
        response_text == Strip(Lower(response.raw_response))
        matched == FirstMatch(patterns.items, response_text)
        likelihood == IF response.confidence_score.some
                      THEN Blend(matched, response.confidence_score.val)
                      ELSE matched
    IN  IF ~scenario.typed THEN Half
        ELSE IF ~response.typed \/ patterns.malformed THEN Half
        ELSE Clamp(likelihood)

\* the except branch (lines 63-65) turns every exception into 0.5: line 38
\* raises on an untyped scenario, line 46 on an untyped response, line 51
\* on a malformed table
calculate_likelihood(h, scenario, response) ==
    LET patterns == GetPatterns(h, scenario_key(scenario))
        response_text == Strip(Lower(response.raw_response))
        matched == FirstMatch(patterns.items, response_text)
        likelihood == IF response.confidence_score.some
                      THEN Blend(matched, response.confidence_score.val)
                      ELSE matched
    IN  IF ~scenario.typed THEN Half
        ELSE IF patterns.items = <<>> THEN Half
        ELSE IF ~response.typed \/ patterns.malformed THEN Half
        ELSE Clamp(likelihood)

(***************************************************************************)
(* Python dicts: a sequence of [key, val] entries in insertion order       *)
(***************************************************************************)
Keys(d) == {d[i].key : i \in DOMAIN d}

KeySeq(d) == [i \in DOMAIN d |-> d[i].key]

Values(d) == [i \in DOMAIN d |-> d[i].val]

IndexOf(d, k) == CHOOSE i \in DOMAIN d : d[i].key = k

DictGet(d, k) == d[IndexOf(d, k)].val

\* d[k] = v : an existing key keeps its position
DictSet(d, k, v) ==
    IF k \in Keys(d) THEN [d EXCEPT ![IndexOf(d, k)].val = v]
    ELSE Append(d, [key |-> k, val |-> v])

RECURSIVE DictDel(_, _)
DictDel(d, k) ==
    IF d = <<>> THEN <<>>
    ELSE IF Head(d).key = k THEN Tail(d)
    ELSE <<Head(d)>> \o DictDel(Tail(d), k)

(***************************************************************************)
(* BayesianEngine: the engine is the record of its three containers and of *)
(* the evidence_count field of every hypothesis object                     *)
(***************************************************************************)
BayesianEngine ==
    [hypotheses |-> <<>>, posterior_probabilities |-> <<>>, evidence_log |-> <<>>,
     evidence_count |-> [o \in ObjRefs |-> 0]]

\* variant: the posteriors are renormalised after the insertion
add_hypothesis_Renormalizes(E, ref) ==
    LET post == DictSet(E.posterior_probabilities, Obj(ref).hypothesis_id,
                        Obj(ref).prior_probability)
        total == RSum(Values(post))
    IN  [E EXCEPT
            !.hypotheses = DictSet(E.hypotheses, Obj(ref).hypothesis_id, ref),
            !.posterior_probabilities =
                IF total = Zero THEN post
                ELSE [i \in DOMAIN post |->
                         [key |-> post[i].key, val |-> RDiv(post[i].val, total)]]]

add_hypothesis(E, ref) ==
    [E EXCEPT
        !.hypotheses = DictSet(E.hypotheses, Obj(ref).hypothesis_id, ref),
        !.posterior_probabilities =
            DictSet(E.posterior_probabilities, Obj(ref).hypothesis_id,
                    Obj(ref).prior_probability)]

\* variant: the posterior entry is left behind
remove_hypothesis_KeepPosterior(E, hypothesis_id) ==
    IF hypothesis_id \in Keys(E.hypotheses)
    THEN [E EXCEPT !.hypotheses = DictDel(E.hypotheses, hypothesis_id)]
    ELSE E

\* variant: the log entries of the removed hypothesis are dropped too
remove_hypothesis_PurgesLog(E, hypothesis_id) ==
    IF hypothesis_id \in Keys(E.hypotheses)
    THEN [E EXCEPT
            !.hypotheses = DictDel(E.hypotheses, hypothesis_id),
            !.posterior_probabilities =
                DictDel(E.posterior_probabilities, hypothesis_id),
            !.evidence_log =
                SelectSeq(E.evidence_log, LAMBDA e : e[1] # hypothesis_id)]
    ELSE E

remove_hypothesis(E, hypothesis_id) ==
    IF hypothesis_id \in Keys(E.hypotheses)
    THEN [E EXCEPT
            !.hypotheses = DictDel(E.hypotheses, hypothesis_id),
            !.posterior_probabilities =
                DictDel(E.posterior_probabilities, hypothesis_id)]
    ELSE E

\* lines 73-76: one likelihood per registered hypothesis, in dict order
Likelihoods(E, scenario, response) ==
    [i \in DOMAIN E.hypotheses |->
        calculate_likelihood(Obj(E.hypotheses[i].val), scenario, response)]

\* variant: only hypotheses with a pattern table for the scenario are logged
LogEntries_TableOnly(E, scenario, likelihoods) ==
    LET all == [i \in DOMAIN E.hypotheses |->
                   <<E.hypotheses[i].key, scenario.scenario_id, likelihoods[i]>>]
        HasTable(e) ==
            \E i \in DOMAIN E.hypotheses :
                /\ E.hypotheses[i].key = e[1]
                /\ scenario_key(scenario) \in
                       DOMAIN Obj(E.hypotheses[i].val).predicted_response_patterns
    IN  SelectSeq(all, HasTable)

\* line 79: the entries one call appends to the evidence log
LogEntries(E, scenario, likelihoods) ==
    [i \in DOMAIN E.hypotheses |->
        <<E.hypotheses[i].key, scenario.scenario_id, likelihoods[i]>>]

\* variant: the hypothesis's prior_probability field is read instead
PriorOf_Field(E, hypothesis_id) ==
    Obj(DictGet(E.hypotheses, hypothesis_id)).prior_probability

\* line 87: the value update_beliefs multiplies the likelihood with
PriorOf(E, hypothesis_id) == DictGet(E.posterior_probabilities, hypothesis_id)

\* variant: the likelihood is added to the prior instead of multiplied
Unnormalized_Additive(E, likelihoods) ==
    [i \in DOMAIN E.hypotheses |->
        RAdd(likelihoods[i], PriorOf(E, E.hypotheses[i].key))]

\* lines 85-89
Unnormalized(E, likelihoods) ==
    [i \in DOMAIN E.hypotheses |->
        RMul(likelihoods[i], PriorOf(E, E.hypotheses[i].key))]

\* variant: the division by total_evidence is missing
Normalized_NoDivide(E, unnormalized, total) ==
    [i \in DOMAIN E.posterior_probabilities |->
        LET k == E.posterior_probabilities[i].key
        IN  IF k \in Keys(E.hypotheses)
            THEN [key |-> k, val |-> unnormalized[IndexOf(E.hypotheses, k)]]
            ELSE E.posterior_probabilities[i]]

\* lines 94-97: the assignments of the normalisation loop
Normalized(E, unnormalized, total) ==
    [i \in DOMAIN E.posterior_probabilities |->
        LET k == E.posterior_probabilities[i].key
        IN  IF k \in Keys(E.hypotheses)
            THEN [key |-> k,
                  val |-> RDiv(unnormalized[IndexOf(E.hypotheses, k)], total)]
            ELSE E.posterior_probabilities[i]]

\* variant: every hypothesis object is counted, registered or not
Counted_All(E) == [o \in ObjRefs |-> E.evidence_count[o] + 1]

\* line 99
Counted(E) ==
    [o \in ObjRefs |->
        IF o \in {E.hypotheses[i].val : i \in DOMAIN E.hypotheses}
        THEN E.evidence_count[o] + 1
        ELSE E.evidence_count[o]]

NoReturn == [kind |-> "None", val |-> <<>>]

NoCall == [kind |-> "none"]

\* run_scenarios has not returned
NotReturned == [returned |-> FALSE, val |-> <<>>]

\* the task has made no surprise check
NotChecked == [checked |-> FALSE, eng |-> BayesianEngine]

\* update_beliefs: the engine after the call and the value it returns; a
\* registered id without a posterior makes line 87 raise KeyError after
\* the log entries were appended
update_beliefs(E, scenario, response) ==
    IF E.hypotheses = <<>>
    THEN [eng |-> E, ret |-> [kind |-> "dict", val |-> <<>>], normalized |-> FALSE]
    ELSE LET likelihoods == Likelihoods(E, scenario, response)
             logged == [E EXCEPT !.evidence_log =
                            E.evidence_log \o LogEntries(E, scenario, likelihoods)]
         IN  IF ~(Keys(E.hypotheses) \subseteq Keys(E.posterior_probabilities))
             THEN [eng |-> logged, ret |-> [kind |-> "KeyError", val |-> <<>>],
                   normalized |-> FALSE]
             ELSE LET unnormalized == Unnormalized(E, likelihoods)
                      total == RSum(unnormalized)
                      done == [logged EXCEPT
                                  !.posterior_probabilities =
                                      Normalized(E, unnormalized, total),
                                  !.evidence_count = Counted(E)]
                  IN  IF RLt(Zero, total)
                      THEN [eng |-> done,
                            ret |-> [kind |-> "dict",
                                     val |-> done.posterior_probabilities],
                            normalized |-> TRUE]
                      ELSE [eng |-> logged,
                            ret |-> [kind |-> "dict",
                                     val |-> logged.posterior_probabilities],
                            normalized |-> FALSE]

RECURSIVE ResetPosteriors(_, _)
ResetPosteriors(post, hyps) ==
    IF hyps = <<>> THEN post
    ELSE ResetPosteriors(
            DictSet(post, Head(hyps).key, Obj(Head(hyps).val).prior_probability),
            Tail(hyps))

\* variant: the evidence log is kept
reset_beliefs_KeepsLog(E) ==
    [E EXCEPT
        !.posterior_probabilities =
            ResetPosteriors(E.posterior_probabilities, E.hypotheses),
        !.evidence_count =
            [o \in ObjRefs |->
                IF o \in {E.hypotheses[i].val : i \in DOMAIN E.hypotheses}
                THEN 0 ELSE E.evidence_count[o]]]

reset_beliefs(E) ==
    [E EXCEPT
        !.posterior_probabilities =
            ResetPosteriors(E.posterior_probabilities, E.hypotheses),
        !.evidence_count =
            [o \in ObjRefs |->
                IF o \in {E.hypotheses[i].val : i \in DOMAIN E.hypotheses}
                THEN 0 ELSE E.evidence_count[o]],
        !.evidence_log = <<>>]

(***************************************************************************)
(* State                                                                   *)
(***************************************************************************)
VARIABLES
    hypotheses,               \* BayesianEngine.hypotheses: id -> object
    posterior_probabilities,  \* BayesianEngine.posterior_probabilities
    evidence_log,             \* BayesianEngine.evidence_log
    evidence_count,           \* CognitiveHypothesis.evidence_count per object
    ret,                      \* the value returned by the last engine call
    normalized,               \* history: the last engine call was an
                              \*   update_beliefs that normalised
    nUpdates,                 \* history: update_beliefs calls made so far
    nSince,                   \* history: update_beliefs calls since the last
                              \*   add / remove / reset
    logBase,                  \* history: log length at that add / remove / reset
    weight,                   \* history: posterior at that point times the
                              \*   likelihoods applied since
    succ,                     \* history: per object, normalising updates while
                              \*   registered since the last reset_beliefs
    addedZero,                \* history: per object, whether its last
                              \*   add_hypothesis found evidence_count = 0
    enable_dynamic_hypotheses,\* LLMCognitiveCrawler.enable_dynamic_hypotheses
    responses,                \* LLMCognitiveCrawler.responses: id -> response
    generated_hypotheses,     \* DynamicHypothesisGenerator.generated_hypotheses
    generation_history,       \* DynamicHypothesisGenerator.generation_history
    scenario_ids,             \* run_scenarios: the ids it was called with
    max_concurrent,           \* run_scenarios: its max_concurrent argument
    semaphore,                \* run_scenarios: the semaphore's free slots
    pc,                       \* per task of run_scenarios: where it is suspended
    result,                   \* per task: what run_scenario returned
    valid_responses,          \* run_scenarios: the list it returned
    seen,                     \* history: per task, the engine its surprise
                              \*   check was computed on
    call,                     \* the arguments of the last calculate_likelihood
                              \*   call made from outside the engine
    calls                     \* history: per task, the engine and generator
                              \*   calls its run_scenario has made, in order

engineVars == <<hypotheses, posterior_probabilities, evidence_log, evidence_count>>

historyVars == <<ret, normalized, nUpdates, nSince, logBase, weight, succ, addedZero>>

crawlerVars ==
    <<enable_dynamic_hypotheses, responses, generated_hypotheses, generation_history,
      scenario_ids, max_concurrent, semaphore, pc, result, calls, valid_responses,
      seen>>

vars == <<engineVars, historyVars, crawlerVars, call>>

Tasks == 1..NumTasks

Engine ==
    [hypotheses |-> hypotheses, posterior_probabilities |-> posterior_probabilities,
     evidence_log |-> evidence_log, evidence_count |-> evidence_count]

SetEngine(E) ==
    /\ hypotheses' = E.hypotheses
    /\ posterior_probabilities' = E.posterior_probabilities
    /\ evidence_log' = E.evidence_log
    /\ evidence_count' = E.evidence_count

Registered(E) == {E.hypotheses[i].val : i \in DOMAIN E.hypotheses}

\* history bookkeeping of a call that is not update_beliefs; E is the
\* engine after the call
RestartHistory(E) ==
    /\ normalized' = FALSE
    /\ nSince' = 0
    /\ logBase' = Len(E.evidence_log)
    /\ weight' = E.posterior_probabilities

\* history bookkeeping of one update_beliefs call on E with result r
AdvanceHistory(E, scenario, response, r) ==
    LET likelihoods == Likelihoods(E, scenario, response)
    IN  /\ normalized' = r.normalized
        /\ nSince' = nSince + 1
        /\ logBase' = logBase
        /\ weight' = [i \in DOMAIN weight |->
                        IF weight[i].key \in Keys(E.hypotheses)
                        THEN [key |-> weight[i].key,
                              val |-> RMul(weight[i].val,
                                           likelihoods[IndexOf(E.hypotheses,
                                                               weight[i].key)])]
                        ELSE weight[i]]
        /\ succ' = [o \in ObjRefs |->
                      IF r.normalized /\ o \in Registered(E)
                      THEN succ[o] + 1 ELSE succ[o]]

Init ==
    /\ hypotheses = BayesianEngine.hypotheses
    /\ posterior_probabilities = BayesianEngine.posterior_probabilities
    /\ evidence_log = BayesianEngine.evidence_log
    /\ evidence_count = BayesianEngine.evidence_count
    /\ ret = NoReturn
    /\ normalized = FALSE
    /\ nUpdates = 0
    /\ nSince = 0
    /\ logBase = 0
    /\ weight = <<>>
    /\ succ = [o \in ObjRefs |-> 0]
    /\ addedZero = [o \in ObjRefs |-> FALSE]
    /\ enable_dynamic_hypotheses = TRUE
    /\ responses = <<>>
    /\ generated_hypotheses = <<>>
    /\ generation_history = <<>>
    /\ scenario_ids = <<>>
    /\ max_concurrent = 0
    /\ semaphore = 0
    /\ pc = [t \in Tasks |-> "idle"]
    /\ result = [t \in Tasks |-> "unset"]
    /\ calls = [t \in Tasks |-> <<>>]
    /\ valid_responses = NotReturned
    /\ seen = [t \in Tasks |-> NotChecked]
    /\ call = NoCall

(***************************************************************************)
(* The engine's public calls                                               *)
(***************************************************************************)
AddHypothesis(ref) ==
    /\ nUpdates' = nUpdates
    /\ ret' = NoReturn
    /\ ValidPrior(Obj(ref).prior_probability)
    /\ SetEngine(add_hypothesis(Engine, ref))
    /\ RestartHistory(add_hypothesis(Engine, ref))
    /\ addedZero' = [addedZero EXCEPT ![ref] = (evidence_count[ref] = 0)]
    /\ UNCHANGED <<call, succ, crawlerVars>>

RemoveHypothesis(hypothesis_id) ==
    /\ nUpdates' = nUpdates
    /\ SetEngine(remove_hypothesis(Engine, hypothesis_id))
    /\ ret' = NoReturn
    /\ RestartHistory(remove_hypothesis(Engine, hypothesis_id))
    /\ UNCHANGED <<call, succ, addedZero, crawlerVars>>

UpdateBeliefs(obs) ==
    /\ nUpdates < MaxUpdates
    /\ nUpdates' = nUpdates + 1
    /\ LET r == update_beliefs(Engine, obs.scenario, obs.response)
       IN  /\ SetEngine(r.eng)
           /\ ret' = r.ret
           /\ AdvanceHistory(Engine, obs.scenario, obs.response, r)
    /\ UNCHANGED <<call, addedZero, crawlerVars>>

ResetBeliefs ==
    /\ nUpdates' = nUpdates
    /\ SetEngine(reset_beliefs(Engine))
    /\ ret' = NoReturn
    /\ RestartHistory(reset_beliefs(Engine))
    /\ succ' = [o \in ObjRefs |-> 0]
    /\ UNCHANGED <<call, addedZero, crawlerVars>>

HypothesisIds == {Obj(ref).hypothesis_id : ref \in StaticRefs}

Next ==
    \/ \E ref \in StaticRefs : AddHypothesis(ref)
    \/ \E id \in HypothesisIds : RemoveHypothesis(id)
    \/ \E obs \in Observations : UpdateBeliefs(obs)
    \/ ResetBeliefs

Spec == Init /\ [][Next]_vars

(***************************************************************************)
(* BayesianEngine.calculate_surprise / is_surprising                       *)
(***************************************************************************)
\* lines 167-176: the posterior-weighted average of the likelihoods
\* variant: an equal entry replaces the one kept, so the last maximal wins
RECURSIVE MaxEntry_Last(_, _)
MaxEntry_Last(d, best) ==
    IF d = <<>> THEN best
    ELSE MaxEntry_Last(Tail(d), IF RLe(best.val, Head(d).val) THEN Head(d) ELSE best)

\* max(iterable, key=...) over a mapping: the entry kept is replaced only by
\* a strictly greater one, so the first maximal entry wins
RECURSIVE MaxEntry(_, _)
MaxEntry(d, best) ==
    IF d = <<>> THEN best
    ELSE MaxEntry(Tail(d), IF RLt(best.val, Head(d).val) THEN Head(d) ELSE best)

\* get_most_likely_hypothesis: the registered object, or "None"
get_most_likely_hypothesis(E) ==
    IF E.posterior_probabilities = <<>> THEN "None"
    ELSE DictGet(E.hypotheses,
                 MaxEntry(Tail(E.posterior_probabilities),
                          Head(E.posterior_probabilities)).key)

\* one step of the stable descending sort: e goes behind every element that
\* is not smaller
RECURSIVE InsertRanked(_, _)
InsertRanked(ranked, e) ==
    IF ranked = <<>> THEN <<e>>
    ELSE IF RLt(Head(ranked)[2], e[2]) THEN <<e>> \o ranked
    ELSE <<Head(ranked)>> \o InsertRanked(Tail(ranked), e)

RECURSIVE SortRanked(_, _)
SortRanked(ranked, items) ==
    IF items = <<>> THEN ranked
    ELSE SortRanked(InsertRanked(ranked, Head(items)), Tail(items))

\* get_hypothesis_ranking: (object, posterior) pairs, sorted(..., reverse=True)
get_hypothesis_ranking(E) ==
    SortRanked(<<>>,
               [i \in DOMAIN E.posterior_probabilities |->
                   <<DictGet(E.hypotheses, E.posterior_probabilities[i].key),
                     E.posterior_probabilities[i].val>>])

\* variant: the plain average of the likelihoods, posteriors ignored
ensemble_likelihood_Unweighted(E, scenario, response) ==
    LET likelihoods == Likelihoods(E, scenario, response)
    IN  RDiv(RSum(likelihoods), Rat(Len(E.hypotheses), 1))

ensemble_likelihood(E, scenario, response) ==
    LET total_weight == RSum(Values(E.posterior_probabilities))
        likelihoods == Likelihoods(E, scenario, response)
    IN  RSum([i \in DOMAIN E.hypotheses |->
                 RMul(likelihoods[i],
                      RDiv(DictGet(E.posterior_probabilities, E.hypotheses[i].key),
                           total_weight))])

\* e^-2 to six places: -ln(x) > 2.0 exactly when x < e^-2; no ensemble
\* likelihood of the model lies within 1/1000 of it
ExpNegThreshold == Rat(135335, 1000000)

\* is_surprising with the crawler's default surprise_threshold of 2.0:
\* calculate_surprise is 0.0 without hypotheses or with total weight 0, the
\* sentinel 10.0 for an ensemble likelihood of 0 or less, -ln of it otherwise
is_surprising(E, scenario, response) ==
    /\ E.hypotheses # <<>>
    /\ RSum(Values(E.posterior_probabilities)) # Zero
    /\ LET ensemble == ensemble_likelihood(E, scenario, response)
       IN  RLe(ensemble, Zero) \/ RLt(ensemble, ExpNegThreshold)

\* calculate_surprise: 0.0 without hypotheses, with total weight 0 or for
\* an ensemble likelihood of 1 or more; the sentinel 10.0 for one of 0 or
\* less; -ln of the ensemble likelihood otherwise, kept as its argument
calculate_surprise(E, scenario, response) ==
    IF E.hypotheses = <<>> \/ RSum(Values(E.posterior_probabilities)) = Zero
    THEN [kind |-> "zero", of |-> One]
    ELSE LET ensemble == ensemble_likelihood(E, scenario, response)
         IN  IF RLe(ensemble, Zero) THEN [kind |-> "sentinel", of |-> ensemble]
             ELSE IF RLe(One, ensemble) THEN [kind |-> "zero", of |-> One]
             ELSE [kind |-> "neglog", of |-> ensemble]

\* e^-10 to nine places: -ln(x) < 10.0 exactly when x > e^-10
ExpNegSentinel == Rat(454, 10000000)

\* a < b for two values of calculate_surprise; -ln is decreasing
SurpriseLess(a, b) ==
    CASE a.kind = "zero" -> b.kind # "zero"
      [] a.kind = "neglog" /\ b.kind = "zero" -> FALSE
      [] a.kind = "neglog" /\ b.kind = "neglog" -> RLt(b.of, a.of)
      [] a.kind = "neglog" /\ b.kind = "sentinel" -> RLt(ExpNegSentinel, a.of)
      [] a.kind = "sentinel" /\ b.kind = "neglog" -> RLt(b.of, ExpNegSentinel)
      [] OTHER -> FALSE

(***************************************************************************)
(* DynamicHypothesisGenerator.validate_hypothesis                          *)
(***************************************************************************)
\* variant: every pair is counted
ValidSamples_All(h, historical_data) == historical_data

\* the pairs whose scenario type has a (truthy) pattern table in h
ValidSamples(h, historical_data) ==
    LET HasTable(pair) == GetPatterns(h, scenario_key(pair.scenario)).items # <<>>
    IN  SelectSeq(historical_data, HasTable)

\* lines 252-258 for one pair
SampleLikelihood(h, pair) ==
    FirstMatch(GetPatterns(h, scenario_key(pair.scenario)).items,
               Strip(Lower(pair.response.raw_response)))

\* raised: iterating a malformed table threw out of the call, or the
\* square root of line 283 was taken of a negative number
validate_hypothesis(h, historical_data) ==
    LET samples == ValidSamples(h, historical_data)
        total_likelihood ==
            RSum([i \in DOMAIN samples |-> SampleLikelihood(h, samples[i])])
        validation_score == RDiv(total_likelihood, Rat(Len(samples), 1))
    IN  IF \/ \E i \in DOMAIN historical_data : ~historical_data[i].scenario.typed
           \/ \E i \in DOMAIN samples :
                  \/ GetPatterns(h, scenario_key(samples[i].scenario)).malformed
                  \/ ~samples[i].response.typed
        THEN [raised |-> TRUE, validation_score |-> Zero, sample_size |-> 0]
        ELSE IF samples = <<>>
        THEN [raised |-> FALSE, validation_score |-> Zero, sample_size |-> 0]
        ELSE IF /\ Len(samples) >= 2
                /\ RLt(RMul(validation_score, RSub(One, validation_score)), Zero)
        THEN [raised |-> TRUE, validation_score |-> Zero, sample_size |-> 0]
        ELSE [raised |-> FALSE,
              validation_score |-> validation_score,
              sample_size |-> Len(samples)]

(***************************************************************************)
(* LLMCognitiveCrawler                                                     *)
(***************************************************************************)
\* _get_historical_data_for_validation
historical_data_for_validation(resps) ==
    LET known == SelectSeq(Values(resps), LAMBDA r : r.scenario_id \in DOMAIN Scenarios)
    IN  [i \in DOMAIN known |->
            [scenario |-> Scenarios[known[i].scenario_id], response |-> known[i]]]

validation_threshold == Rat(2, 5)

\* variant: a candidate scoring exactly the threshold is admitted too
Admits_AtThreshold(ref, historical_data) ==
    LET validation_results == validate_hypothesis(Obj(ref), historical_data)
    IN  /\ ~validation_results.raised
        /\ RLe(validation_threshold, validation_results.validation_score)

\* lines 235-242: whether the candidate passes validation
Admits(ref, historical_data) ==
    LET validation_results == validate_hypothesis(Obj(ref), historical_data)
    IN  /\ ~validation_results.raised
        /\ RLt(validation_threshold, validation_results.validation_score)

Ev(op, arg) == <<op, arg>>

\* variant: an exception of validate_hypothesis reaches run_scenario's
\* handler, which returns without updating
after_generation_Uncaught(E, scenario, response, rid, ref, resps) ==
    LET historical_data == historical_data_for_validation(resps)
        raised == validate_hypothesis(Obj(ref), historical_data).raised
        admitted == Admits(ref, historical_data)
        E1 == IF admitted THEN add_hypothesis(E, ref) ELSE E
    IN  IF raised
        THEN [eng |-> E, events |-> <<Ev("validate_hypothesis", ref)>>,
              returned |-> "None"]
        ELSE [eng |-> update_beliefs(E1, scenario, response).eng,
              events |-> <<Ev("validate_hypothesis", ref)>>
                         \o (IF admitted THEN <<Ev("add_hypothesis", ref)>> ELSE <<>>)
                         \o <<Ev("update_beliefs", rid)>>,
              returned |-> "LLMResponse"]

\* _handle_surprise_detection lines 233-249 and run_scenario lines 82-85,
\* run without suspension once generate_hypothesis has returned candidate
\* ref: validation, admission, then the belief update
after_generation(E, scenario, response, rid, ref, resps) ==
    LET historical_data == historical_data_for_validation(resps)
        admitted == Admits(ref, historical_data)
        E1 == IF admitted THEN add_hypothesis(E, ref) ELSE E
    IN  [eng |-> update_beliefs(E1, scenario, response).eng,
         events |-> <<Ev("validate_hypothesis", ref)>>
                    \o (IF admitted THEN <<Ev("add_hypothesis", ref)>> ELSE <<>>)
                    \o <<Ev("update_beliefs", rid)>>,
         returned |-> "LLMResponse"]

\* the ids run_scenarios may be called with; s9 names no scenario
ScenarioIdArgs == {"s1", "s2", "s9"}

\* the hypothesis lists add_hypotheses was called with before the run
InitialHypotheses == {<<>>, <<"o2">>, <<"o1", "o2">>}

\* the texts the provider may answer a scenario with; it sets no
\* confidence_score (models/ollama_provider.py)
ProviderTexts(sid) == IF sid = "s1" THEN {TextSafe, TextNo} ELSE {TextNo}

\* the uuid of the response task t receives
response_id(t) == "r" \o ToString(t)

RECURSIVE add_hypotheses(_, _)
add_hypotheses(E, refs) ==
    IF refs = <<>> THEN E ELSE add_hypotheses(add_hypothesis(E, Head(refs)), Tail(refs))

InitCrawler ==
    /\ \E refs \in InitialHypotheses :
          /\ hypotheses = add_hypotheses(BayesianEngine, refs).hypotheses
          /\ posterior_probabilities =
                 add_hypotheses(BayesianEngine, refs).posterior_probabilities
    /\ evidence_log = <<>>
    /\ evidence_count = [o \in ObjRefs |-> 0]
    /\ ret = NoReturn
    /\ normalized = FALSE
    /\ nUpdates = 0
    /\ nSince = 0
    /\ logBase = 0
    /\ weight = <<>>
    /\ succ = [o \in ObjRefs |-> 0]
    /\ addedZero = [o \in ObjRefs |-> FALSE]
    /\ enable_dynamic_hypotheses \in BOOLEAN
    /\ responses = <<>>
    /\ generated_hypotheses = <<>>
    /\ generation_history = <<>>
    /\ scenario_ids \in [Tasks -> ScenarioIdArgs]
    /\ max_concurrent \in 0..MaxConcurrent
    /\ semaphore = max_concurrent
    /\ pc = [t \in Tasks |->
                IF scenario_ids[t] \in DOMAIN Scenarios THEN "pending" ELSE "filtered"]
    /\ result = [t \in Tasks |-> "unset"]
    /\ calls = [t \in Tasks |-> <<>>]
    /\ valid_responses = NotReturned
    /\ seen = [t \in Tasks |-> NotChecked]
    /\ call = NoCall

\* run_with_semaphore leaves the `async with`: the slot is freed and
\* run_scenario's value is the task's result
Finish(t, returned) ==
    /\ semaphore' = semaphore + 1
    /\ pc' = [pc EXCEPT ![t] = "done"]
    /\ result' = [result EXCEPT ![t] = returned]

\* variant: a task enters whether or not a slot is free
Acquire_NoLimit(t) ==
    /\ pc[t] = "pending"
    /\ semaphore' = semaphore - 1
    /\ pc' = [pc EXCEPT ![t] = "query"]
    /\ calls' = [calls EXCEPT ![t] = Append(@, Ev("query", scenario_ids[t]))]
    /\ UNCHANGED <<call, valid_responses, seen, engineVars, historyVars,
                   enable_dynamic_hypotheses, responses, generated_hypotheses,
                   generation_history, scenario_ids, max_concurrent, result>>

\* a task enters the `async with semaphore` and run_scenario runs up to
\* the provider query of line 75
Acquire(t) ==
    /\ pc[t] = "pending"
    /\ semaphore > 0
    /\ semaphore' = semaphore - 1
    /\ pc' = [pc EXCEPT ![t] = "query"]
    /\ calls' = [calls EXCEPT ![t] = Append(@, Ev("query", scenario_ids[t]))]
    /\ UNCHANGED <<call, valid_responses, seen, engineVars, historyVars, enable_dynamic_hypotheses, responses,
                   generated_hypotheses, generation_history, scenario_ids,
                   max_concurrent, result>>

\* variant: the slot is not freed when the query raises
QueryFails_KeepsSlot(t) ==
    /\ pc[t] = "query"
    /\ pc' = [pc EXCEPT ![t] = "done"]
    /\ result' = [result EXCEPT ![t] = "None"]
    /\ UNCHANGED <<call, valid_responses, seen, engineVars, historyVars, enable_dynamic_hypotheses, responses,
                   generated_hypotheses, generation_history, scenario_ids,
                   max_concurrent, semaphore, calls>>

\* the provider query raises: lines 87-89 return None
QueryFails(t) ==
    /\ pc[t] = "query"
    /\ Finish(t, "None")
    /\ UNCHANGED <<call, valid_responses, seen, engineVars, historyVars, enable_dynamic_hypotheses, responses,
                   generated_hypotheses, generation_history, scenario_ids,
                   max_concurrent, calls>>

\* variant: the surprise check logs the likelihoods it computed
surprise_check_Logs(E, scenario, response) ==
    [eng |-> [E EXCEPT !.evidence_log =
                 E.evidence_log
                     \o LogEntries(E, scenario, Likelihoods(E, scenario, response))],
     surprising |-> is_surprising(E, scenario, response)]

\* _handle_surprise_detection lines 219-226: is_surprising and, for a
\* surprising response, get_surprise_context and get_hypothesis_ranking;
\* none of them assigns to the engine
surprise_check(E, scenario, response) ==
    [eng |-> E, surprising |-> is_surprising(E, scenario, response)]

\* the provider query returns: lines 76-85, up to the generation query of
\* dynamic_hypothesis_generator.py line 141 when the response is surprising
QueryReturns(t, text) ==
    /\ pc[t] = "query"
    /\ text \in ProviderTexts(scenario_ids[t])
    /\ LET scenario == Scenarios[scenario_ids[t]]
           response == LLMResponse(scenario_ids[t], text, None)
           rid == response_id(t)
           checked == IF enable_dynamic_hypotheses
                      THEN <<Ev("is_surprising", rid)>> ELSE <<>>
           check == IF enable_dynamic_hypotheses
                    THEN surprise_check(Engine, scenario, response)
                    ELSE [eng |-> Engine, surprising |-> FALSE]
       IN  /\ responses' = DictSet(responses, rid, response)
           /\ seen' = IF enable_dynamic_hypotheses
                      THEN [seen EXCEPT ![t] = [checked |-> TRUE, eng |-> Engine]]
                      ELSE seen
           /\ IF check.surprising
              THEN /\ pc' = [pc EXCEPT ![t] = "generate"]
                   /\ calls' = [calls EXCEPT ![t] =
                                   @ \o checked \o <<Ev("generate_hypothesis", rid)>>]
                   /\ SetEngine(check.eng)
                   /\ UNCHANGED <<semaphore, result>>
              ELSE /\ SetEngine(update_beliefs(check.eng, scenario, response).eng)
                   /\ calls' = [calls EXCEPT ![t] =
                                   @ \o checked \o <<Ev("update_beliefs", rid)>>]
                   /\ Finish(t, "LLMResponse")
    /\ UNCHANGED <<call, valid_responses, historyVars, enable_dynamic_hypotheses, generated_hypotheses,
                   generation_history, scenario_ids, max_concurrent>>

\* generate_hypothesis returns None (the query failed, the reply was empty
\* or unparsable, or construction failed): lines 82-85 follow
GenerationFails(t) ==
    /\ pc[t] = "generate"
    /\ LET scenario == Scenarios[scenario_ids[t]]
           response == DictGet(responses, response_id(t))
       IN  SetEngine(update_beliefs(Engine, scenario, response).eng)
    /\ calls' = [calls EXCEPT ![t] = Append(@, Ev("update_beliefs", response_id(t)))]
    /\ Finish(t, "LLMResponse")
    /\ UNCHANGED <<call, valid_responses, seen, historyVars, enable_dynamic_hypotheses, responses,
                   generated_hypotheses, generation_history, scenario_ids,
                   max_concurrent>>

\* generate_hypothesis lines 85-87: the candidate is recorded
Recorded(t, ref) ==
    /\ generated_hypotheses' =
           DictSet(generated_hypotheses, Obj(ref).hypothesis_id, ref)
    /\ generation_history' =
           Append(generation_history,
                  [hypothesis_id |-> Obj(ref).hypothesis_id,
                   trigger_scenario |-> scenario_ids[t],
                   trigger_response |-> response_id(t)])

\* variant: the task yields to the event loop after admitting a candidate
\* and before its belief update
GenerationReturns_Suspends(t, ref) ==
    /\ pc[t] = "generate"
    /\ ref \in GenRefs \ {generated_hypotheses[i].val : i \in DOMAIN generated_hypotheses}
    /\ Recorded(t, ref)
    /\ LET scenario == Scenarios[scenario_ids[t]]
           response == DictGet(responses, response_id(t))
           r == after_generation(Engine, scenario, response, response_id(t), ref,
                                 responses)
       IN  IF Admits(ref, historical_data_for_validation(responses))
           THEN /\ SetEngine(add_hypothesis(Engine, ref))
                /\ calls' = [calls EXCEPT ![t] =
                                @ \o <<Ev("validate_hypothesis", ref),
                                       Ev("add_hypothesis", ref)>>]
                /\ pc' = [pc EXCEPT ![t] = "admitted"]
                /\ UNCHANGED <<semaphore, result>>
           ELSE /\ SetEngine(r.eng)
                /\ calls' = [calls EXCEPT ![t] = @ \o r.events]
                /\ Finish(t, r.returned)
    /\ UNCHANGED <<call, valid_responses, seen, historyVars, enable_dynamic_hypotheses, responses, scenario_ids,
                   max_concurrent>>

\* generate_hypothesis returns a new hypothesis object: validation,
\* admission and the belief update follow without suspension
GenerationReturns(t, ref) ==
    /\ pc[t] = "generate"
    /\ ref \in GenRefs \ {generated_hypotheses[i].val : i \in DOMAIN generated_hypotheses}
    /\ Recorded(t, ref)
    /\ LET scenario == Scenarios[scenario_ids[t]]
           response == DictGet(responses, response_id(t))
           r == after_generation(Engine, scenario, response, response_id(t), ref,
                                 responses)
       IN  /\ SetEngine(r.eng)
           /\ calls' = [calls EXCEPT ![t] = @ \o r.events]
           /\ Finish(t, r.returned)
    /\ UNCHANGED <<call, valid_responses, seen, historyVars, enable_dynamic_hypotheses, responses, scenario_ids,
                   max_concurrent>>

\* the results of gather, in task order
RECURSIVE Gathered(_)
Gathered(n) ==
    IF n = 0 THEN <<>>
    ELSE IF pc[n] = "filtered" THEN Gathered(n - 1)
    ELSE Append(Gathered(n - 1), [task |-> n, value |-> result[n]])

\* variant: the None results are kept in the list
Gather_KeepsNone ==
    /\ ~valid_responses.returned
    /\ \A t \in Tasks : pc[t] \in {"filtered", "done"}
    /\ valid_responses' =
           [returned |-> TRUE,
            val |-> [i \in DOMAIN Gathered(NumTasks) |->
                        response_id(Gathered(NumTasks)[i].task)]]
    /\ UNCHANGED <<call, engineVars, historyVars, enable_dynamic_hypotheses,
                   responses, generated_hypotheses, generation_history, scenario_ids,
                   max_concurrent, semaphore, pc, result, calls, seen>>

\* run_scenarios lines 111-117: every task has finished; the values that
\* are responses are returned
Gather ==
    /\ ~valid_responses.returned
    /\ \A t \in Tasks : pc[t] \in {"filtered", "done"}
    /\ LET valid == SelectSeq(Gathered(NumTasks),
                              LAMBDA r : r.value = "LLMResponse")
       IN  valid_responses' =
               [returned |-> TRUE,
                val |-> [i \in DOMAIN valid |-> response_id(valid[i].task)]]
    /\ UNCHANGED <<call, engineVars, historyVars, enable_dynamic_hypotheses,
                   responses, generated_hypotheses, generation_history, scenario_ids,
                   max_concurrent, semaphore, pc, result, calls, seen>>

NextCrawler ==
    \/ \E t \in Tasks : Acquire(t)
    \/ \E t \in Tasks : QueryFails(t)
    \/ \E t \in Tasks : \E text \in {TextSafe, TextNo} : QueryReturns(t, text)
    \/ \E t \in Tasks : GenerationFails(t)
    \/ \E t \in Tasks : \E ref \in GenRefs : GenerationReturns(t, ref)
    \/ Gather

SpecCrawler == InitCrawler /\ [][NextCrawler]_vars

\* the provider query of task t returns or raises: the steps of
\* QueryFails(t) and QueryReturns(t, text), which are enabled exactly when
\* t waits on the query
QueryResolves(t) ==
    /\ pc[t] = "query"
    /\ pc' \in {[pc EXCEPT ![t] = "generate"], [pc EXCEPT ![t] = "done"]}

\* the generation query of task t returns or raises: the steps of
\* GenerationFails(t) and GenerationReturns(t, ref)
GenerationResolves(t) ==
    /\ pc[t] = "generate"
    /\ pc' = [pc EXCEPT ![t] = "done"]

\* every provider call returns or fails, the event loop runs every task
\* that can run, and gather returns once all tasks have finished
FairCrawler ==
    /\ \A t \in Tasks : WF_vars(Acquire(t))
    /\ \A t \in Tasks : WF_pc(QueryResolves(t))
    /\ \A t \in Tasks : WF_pc(GenerationResolves(t))
    /\ WF_vars(Gather)

SpecCrawlerFair == InitCrawler /\ [][NextCrawler]_vars /\ FairCrawler

(***************************************************************************)
(* calculate_likelihood called on its own, over a range of arguments       *)
(***************************************************************************)
PatternTables ==
    { <<Pat(TSafe, Rat(9, 10))>>,
      <<Pat(TYes, Rat(4, 5)), Pat(TSafe, Rat(1, 10))>>,
      <<Pat(TSafe, Rat(1, 10)), Pat(TYes, Rat(9, 10))>>,
      <<Pat(<<"s", "a">>, Rat(1, 5)), Pat(TSafe, Rat(9, 10))>>,
      <<Pat(<<"S", "A", "F", "E">>, Rat(7, 10))>>,
      <<Pat(TSafe, Zero)>>,
      <<Pat(TSafe, One)>>,
      <<Pat(TSafe, Rat(3, 2))>>,
      <<Pat(TYes, Rat(-1, 2))>> }

\* predicted_response_patterns values: no entry at all, an empty table, a
\* table that is not a dict, or one of the tables above for the s1 key
LikelihoodPatterns ==
    { [k \in {} |-> EmptyTable] }
        \cup { [k \in {KeyEthical} |-> EmptyTable],
               [k \in {KeyEthical} |-> MalformedTable] }
        \cup { [k \in {KeyEthical} |-> Table(items)] : items \in PatternTables }

LikelihoodScenarios == {Scenarios["s1"], Scenarios["s2"], UntypedScenario("s1")}

Confidences ==
    {None, Some(Zero), Some(Rat(1, 4)), Some(Half), Some(One), Some(Rat(2, 1)),
     Some(Rat(-1, 1))}

LikelihoodResponses ==
    { LLMResponse("s1", text, c) :
          text \in {TextYesSafe, TextSafe, TextNo}, c \in Confidences }
        \cup { UntypedResponse("s1", c) : c \in Confidences }

\* the engine is fresh; a caller holds the arguments of a pending call
InitLikelihood ==
    /\ hypotheses = BayesianEngine.hypotheses
    /\ posterior_probabilities = BayesianEngine.posterior_probabilities
    /\ evidence_log = BayesianEngine.evidence_log
    /\ evidence_count = BayesianEngine.evidence_count
    /\ ret = NoReturn
    /\ normalized = FALSE
    /\ nUpdates = 0
    /\ nSince = 0
    /\ logBase = 0
    /\ weight = <<>>
    /\ succ = [o \in ObjRefs |-> 0]
    /\ addedZero = [o \in ObjRefs |-> FALSE]
    /\ enable_dynamic_hypotheses = TRUE
    /\ responses = <<>>
    /\ generated_hypotheses = <<>>
    /\ generation_history = <<>>
    /\ scenario_ids = <<>>
    /\ max_concurrent = 0
    /\ semaphore = 0
    /\ pc = [t \in Tasks |-> "idle"]
    /\ result = [t \in Tasks |-> "unset"]
    /\ calls = [t \in Tasks |-> <<>>]
    /\ valid_responses = NotReturned
    /\ seen = [t \in Tasks |-> NotChecked]
    /\ \E patterns \in LikelihoodPatterns :
       \E scenario \in LikelihoodScenarios :
       \E response \in LikelihoodResponses :
          call = [kind |-> "pending",
                  hypothesis |-> CognitiveHypothesis("h", Rat(1, 10), patterns),
                  scenario |-> scenario, response |-> response]

\* calculate_likelihood(hypothesis, scenario, response) returns
CalculateLikelihood ==
    /\ call.kind = "pending"
    /\ call' = [call EXCEPT !.kind = "returned"]
    /\ ret' = [kind |-> "float",
               val |-> calculate_likelihood(call.hypothesis, call.scenario,
                                            call.response)]
    /\ UNCHANGED <<engineVars, normalized, nUpdates, nSince, logBase, weight, succ,
                   addedZero, crawlerVars>>

NextLikelihood == CalculateLikelihood

SpecLikelihood == InitLikelihood /\ [][NextLikelihood]_vars

(***************************************************************************)
(* update_beliefs over a range of observations, on engines that were       *)
(* filled by add_hypothesis calls, objects of the generator included       *)
(***************************************************************************)
EvidenceHypotheses ==
    {<<"o1", "o2">>, <<"o2", "g5">>, <<"o1", "g4", "g5">>, <<"g4", "o3">>, <<"o3">>,
     <<"o1">>, <<"o2", "o1", "g4">>, <<"g3", "o2">>, <<"o1", "o3", "o2">>,
     <<>>, <<"g3", "g5", "g4">>, <<"g5", "g3">>}

EvidenceObservations ==
    { [scenario |-> Scenarios["s1"],
       response |-> LLMResponse("s1", TextYesSafe, Some(Half))],
      [scenario |-> Scenarios["s1"], response |-> LLMResponse("s1", TextSafe, None)],
      [scenario |-> Scenarios["s1"], response |-> LLMResponse("s1", TextNo, None)],
      [scenario |-> Scenarios["s2"],
       response |-> LLMResponse("s2", TextSafe, Some(Half))],
      [scenario |-> Scenarios["s2"], response |-> LLMResponse("s2", TextNo, None)],
      [scenario |-> Scenarios["s2"],
       response |-> LLMResponse("s2", TextYesSafe, Some(Rat(1, 4)))],
      [scenario |-> Scenarios["s1"], response |-> UntypedResponse("s1", None)],
      [scenario |-> UntypedScenario("s1"),
       response |-> LLMResponse("s1", TextSafe, None)] }

InitEvidence ==
    /\ \E refs \in EvidenceHypotheses :
          /\ hypotheses = add_hypotheses(BayesianEngine, refs).hypotheses
          /\ posterior_probabilities =
                 add_hypotheses(BayesianEngine, refs).posterior_probabilities
          /\ weight = add_hypotheses(BayesianEngine, refs).posterior_probabilities
          /\ addedZero = [o \in ObjRefs |-> \E i \in DOMAIN refs : refs[i] = o]
    /\ evidence_log = <<>>
    /\ evidence_count = [o \in ObjRefs |-> 0]
    /\ ret = NoReturn
    /\ normalized = FALSE
    /\ nUpdates = 0
    /\ nSince = 0
    /\ logBase = 0
    /\ succ = [o \in ObjRefs |-> 0]
    /\ enable_dynamic_hypotheses = TRUE
    /\ responses = <<>>
    /\ generated_hypotheses = <<>>
    /\ generation_history = <<>>
    /\ scenario_ids = <<>>
    /\ max_concurrent = 0
    /\ semaphore = 0
    /\ pc = [t \in Tasks |-> "idle"]
    /\ result = [t \in Tasks |-> "unset"]
    /\ calls = [t \in Tasks |-> <<>>]
    /\ valid_responses = NotReturned
    /\ seen = [t \in Tasks |-> NotChecked]
    /\ call = NoCall

NextEvidence == \E obs \in EvidenceObservations : UpdateBeliefs(obs)

SpecEvidence == InitEvidence /\ [][NextEvidence]_vars

(***************************************************************************)
(* DynamicHypothesisGenerator.generate_hypothesis                          *)
(*                                                                         *)
(* The provider's reply is a sequence of tokens: braces, prose words,      *)
(* members "key": scalar, and keys whose value is an object that follows.  *)
(***************************************************************************)
MaxGenerations == 2

Null == [type |-> "null", str |-> "", num |-> Zero]

Str(text) == [type |-> "string", str |-> text, num |-> Zero]

Num(r) == [type |-> "number", str |-> "", num |-> r]

LBrace == [sym |-> "{", key |-> "", val |-> Null]

RBrace == [sym |-> "}", key |-> "", val |-> Null]

Word == [sym |-> "w", key |-> "", val |-> Null]

Member(key, val) == [sym |-> "member", key |-> key, val |-> val]

Key(key) == [sym |-> "key", key |-> key, val |-> Null]

\* a parsed member: a scalar, or an object given by its members
Scalar(key, val) == [key |-> key, isobj |-> FALSE, val |-> val, members |-> <<>>]

Object(key, members) == [key |-> key, isobj |-> TRUE, val |-> Null, members |-> members]

\* re.search(r'\{.*\}', text, re.DOTALL): from the first opening brace to
\* the last closing brace after it
regex_search(text) ==
    LET opens == {i \in DOMAIN text : text[i] = LBrace}
        first == CHOOSE i \in opens : \A j \in opens : i <= j
        closes == {i \in DOMAIN text : text[i] = RBrace /\ i > first}
        last == CHOOSE i \in closes : \A j \in closes : j <= i
    IN  IF opens = {} THEN [matched |-> FALSE, group |-> <<>>]
        ELSE IF closes = {} THEN [matched |-> FALSE, group |-> <<>>]
        ELSE [matched |-> TRUE, group |-> SubSeq(text, first, last)]

\* the members of the object whose opening brace precedes position i
RECURSIVE ParseMembers(_, _, _)
ParseMembers(toks, i, acc) ==
    IF i > Len(toks) THEN [ok |-> FALSE, members |-> <<>>, next |-> i]
    ELSE IF toks[i].sym = "}" THEN [ok |-> TRUE, members |-> acc, next |-> i + 1]
    ELSE IF toks[i].sym = "member"
    THEN ParseMembers(toks, i + 1, Append(acc, Scalar(toks[i].key, toks[i].val)))
    ELSE IF toks[i].sym = "key" /\ i < Len(toks) /\ toks[i + 1].sym = "{"
    THEN LET sub == ParseMembers(toks, i + 2, <<>>)
         IN  IF sub.ok
             THEN ParseMembers(toks, sub.next,
                               Append(acc, Object(toks[i].key, sub.members)))
             ELSE [ok |-> FALSE, members |-> <<>>, next |-> i]
    ELSE [ok |-> FALSE, members |-> <<>>, next |-> i]

\* json.loads of a string that starts with an opening brace: one object
\* and nothing after it, else JSONDecodeError
json_loads(json_str) ==
    LET parsed == ParseMembers(json_str, 2, <<>>)
    IN  IF parsed.ok /\ parsed.next = Len(json_str) + 1
        THEN [ok |-> TRUE, data |-> parsed.members]
        ELSE [ok |-> FALSE, data |-> <<>>]

Has(data, field) == \E i \in DOMAIN data : data[i].key = field

\* data[field]; json.loads keeps the last of repeated keys
Get(data, field) ==
    data[CHOOSE i \in DOMAIN data :
            /\ data[i].key = field
            /\ \A j \in DOMAIN data : data[j].key = field => j <= i]

required_fields == {"name", "description", "cognitive_attributes"}

NoData == [some |-> FALSE, data |-> <<>>]

\* lines 152-172
_parse_hypothesis_response(response_text) ==
    LET json_match == regex_search(response_text)
        loaded == json_loads(json_match.group)
    IN  IF ~json_match.matched THEN NoData
        ELSE IF ~loaded.ok THEN NoData
        ELSE IF ~(\A field \in required_fields : Has(loaded.data, field)) THEN NoData
        ELSE [some |-> TRUE, data |-> loaded.data]

\* what the provider query of line 141 gives: it raises, or returns no
\* response object, or a response with this raw_response
Raises == [kind |-> "raises", raw_response |-> <<>>]

NoResponse == [kind |-> "none", raw_response |-> <<>>]

Reply(raw_response) == [kind |-> "response", raw_response |-> raw_response]

\* lines 128-150
_query_for_hypothesis(outcome) ==
    IF outcome.kind = "raises" THEN NoData
    ELSE IF outcome.kind = "none" \/ outcome.raw_response = <<>> THEN NoData
    ELSE _parse_hypothesis_response(outcome.raw_response)

\* variant: the prior is not capped at 0.2
prior_probability_Uncapped(confidence) == RMax(Rat(1, 20), RMul(confidence, Rat(1, 5)))

\* line 192: max(0.05, min(0.2, confidence * 0.2))
prior_probability(confidence) ==
    RMax(Rat(1, 20), RMin(Rat(1, 5), RMul(confidence, Rat(1, 5))))

\* CognitiveHypothesis.__post_init__ on the constructor arguments of lines
\* 195-209, and the attribute accesses before it
Constructible(data, prior) ==
    LET name == Get(data, "name")
        attrs == Get(data, "cognitive_attributes")
    IN  /\ ~(name.isobj /\ name.members = <<>>)
        /\ ~(~name.isobj /\ name.val.type = "null")
        /\ ~(~name.isobj /\ name.val.type = "string" /\ name.val.str = "")
        /\ ~(~name.isobj /\ name.val.type = "number" /\ name.val.num = Zero)
        /\ Has(data, "domain_specificity")
              => LET domains == Get(data, "domain_specificity")
                 IN  domains.isobj \/ domains.val.type = "string"
        /\ ValidPrior(prior)
        /\ attrs.isobj
        /\ \A i \in DOMAIN attrs.members :
              /\ ~attrs.members[i].isobj
              /\ attrs.members[i].val.type = "number"
              /\ RLe(Zero, attrs.members[i].val.num)
              /\ RLe(attrs.members[i].val.num, One)

NoHypothesis == [kind |-> "None", val |-> <<>>]

\* lines 174-215; hypothesis_id is the uuid4 the dataclass draws
_create_hypothesis_from_data(data, hypothesis_id) ==
    LET given == Has(data, "confidence")
        confidence == IF given THEN Get(data, "confidence") ELSE Scalar("confidence", Num(Half))
        numeric == ~confidence.isobj /\ confidence.val.type = "number"
        prior == prior_probability(confidence.val.num)
    IN  IF ~numeric THEN NoHypothesis
        ELSE IF ~Constructible(data, prior) THEN NoHypothesis
        ELSE [kind |-> "hypothesis",
              val |-> [hypothesis_id |-> hypothesis_id,
                       name |-> Get(data, "name").val,
                       prior_probability |-> prior,
                       predicted_response_patterns |->
                           IF Has(data, "predicted_patterns")
                           THEN Get(data, "predicted_patterns").members ELSE <<>>,
                       cognitive_attributes |-> Get(data, "cognitive_attributes").members,
                       generation_confidence |-> confidence.val.num]]

\* the generator's two collections
Generator == [generated_hypotheses |-> generated_hypotheses,
              generation_history |-> generation_history]

\* _log_generation, lines 217-233
generation_record(hypothesis) ==
    [hypothesis_id |-> hypothesis.hypothesis_id,
     generation_confidence |-> hypothesis.generation_confidence]

\* variant: the history record is not written
generate_hypothesis_NoRecord(G, outcome, hypothesis_id) ==
    LET generated_data == _query_for_hypothesis(outcome)
        hypothesis == _create_hypothesis_from_data(generated_data.data, hypothesis_id)
    IN  IF ~generated_data.some THEN [gen |-> G, ret |-> NoHypothesis]
        ELSE IF hypothesis.kind = "None" THEN [gen |-> G, ret |-> NoHypothesis]
        ELSE [gen |-> [G EXCEPT !.generated_hypotheses =
                           DictSet(@, hypothesis.val.hypothesis_id, hypothesis.val)],
              ret |-> hypothesis]

\* lines 66-94
generate_hypothesis(G, outcome, hypothesis_id) ==
    LET generated_data == _query_for_hypothesis(outcome)
        hypothesis == _create_hypothesis_from_data(generated_data.data, hypothesis_id)
    IN  IF ~generated_data.some THEN [gen |-> G, ret |-> NoHypothesis]
        ELSE IF hypothesis.kind = "None" THEN [gen |-> G, ret |-> NoHypothesis]
        ELSE [gen |-> [generated_hypotheses |->
                           DictSet(G.generated_hypotheses,
                                   hypothesis.val.hypothesis_id, hypothesis.val),
                       generation_history |->
                           Append(G.generation_history,
                                  generation_record(hypothesis.val))],
              ret |-> hypothesis]

(***************************************************************************)
(* The generator called on its own: replies and validation inputs drawn    *)
(* from bounded sets                                                       *)
(***************************************************************************)
Braced(members) == <<LBrace>> \o members \o <<RBrace>>

NameAndDescription == <<Member("name", Str("H")), Member("description", Str("D"))>>

Patterns ==
    <<Key("predicted_patterns")>>
        \o Braced(<<Key(KeyEthical)>> \o Braced(<<Member("safe", Num(Rat(9, 10)))>>))

Attributes(value) ==
    <<Key("cognitive_attributes")>> \o Braced(<<Member("risk_tolerance", value)>>)

\* the object the prompt asks for, with the given confidence member(s)
Hypothesis(confidence) ==
    Braced(NameAndDescription \o Patterns \o Attributes(Num(Rat(3, 5))) \o confidence)

ConfidenceMembers ==
    {<<>>} \cup
    { <<Member("confidence", v)>> :
        v \in { Num(Rat(0 - 1, 1)), Num(Zero), Num(Rat(1, 10)), Num(Half),
                Num(Rat(3, 4)), Num(One), Num(Rat(2, 1)), Str("high"), Null } }

RawResponses ==
    { Hypothesis(c) : c \in ConfidenceMembers } \cup
    { <<Word>> \o Hypothesis(<<>>) \o <<Word>>,
      <<Word>> \o Hypothesis(<<Member("confidence", Num(One))>>)
          \o <<Word, LBrace, Word, RBrace>>,
      Hypothesis(<<>>) \o <<Word, RBrace>>,
      <<LBrace, Word, RBrace, Word>> \o Hypothesis(<<>>),
      Braced(<<Member("description", Str("D"))>> \o Attributes(Num(Half))),
      Braced(<<Member("name", Str("H"))>> \o Attributes(Num(Half))),
      Braced(NameAndDescription),
      Braced(<<Member("name", Str("")), Member("description", Str("D"))>>
                 \o Attributes(Num(Half))),
      Braced(NameAndDescription \o Attributes(Num(Rat(3, 2)))),
      Braced(NameAndDescription \o <<Member("cognitive_attributes", Num(Half))>>),
      Braced(NameAndDescription \o Attributes(Num(Half))
                 \o <<Member("domain_specificity", Num(One))>>),
      <<Word, Word>>,
      <<Word, LBrace, Word>>,
      Braced(<<Word>>),
      <<>> }

ProviderOutcomes == {Raises, NoResponse} \cup {Reply(text) : text \in RawResponses}

\* hypotheses handed to validate_hypothesis
ValidatedHypotheses ==
    { Obj("o2"), Obj("g4"), Obj("g5"),
      CognitiveHypothesis("v1", Rat(1, 10),
          [k \in {KeyEthical} |-> Table(<<Pat(TSafe, Rat(3, 2))>>)]) }

HistoricalPairs ==
    { [scenario |-> Scenarios["s1"],
       response |-> LLMResponse("s1", TextYesSafe, Some(Half))],
      [scenario |-> Scenarios["s1"], response |-> LLMResponse("s1", TextSafe, None)],
      [scenario |-> Scenarios["s1"], response |-> LLMResponse("s1", TextNo, None)],
      [scenario |-> Scenarios["s2"], response |-> LLMResponse("s2", TextSafe, None)],
      [scenario |-> Scenarios["s1"], response |-> UntypedResponse("s1", None)] }

MaxHistory == 2

HistoricalData == UNION {[1..n -> HistoricalPairs] : n \in 0..MaxHistory}

InitGenerator ==
    /\ hypotheses = BayesianEngine.hypotheses
    /\ posterior_probabilities = BayesianEngine.posterior_probabilities
    /\ evidence_log = BayesianEngine.evidence_log
    /\ evidence_count = BayesianEngine.evidence_count
    /\ ret = NoReturn
    /\ normalized = FALSE
    /\ nUpdates = 0
    /\ nSince = 0
    /\ logBase = 0
    /\ weight = <<>>
    /\ succ = [o \in ObjRefs |-> 0]
    /\ addedZero = [o \in ObjRefs |-> FALSE]
    /\ enable_dynamic_hypotheses = TRUE
    /\ responses = <<>>
    /\ generated_hypotheses = <<>>
    /\ generation_history = <<>>
    /\ scenario_ids = <<>>
    /\ max_concurrent = 0
    /\ semaphore = 0
    /\ pc = [t \in Tasks |-> "idle"]
    /\ result = [t \in Tasks |-> "unset"]
    /\ calls = [t \in Tasks |-> <<>>]
    /\ valid_responses = NotReturned
    /\ seen = [t \in Tasks |-> NotChecked]
    /\ call = NoCall

\* the uuid4 of the next hypothesis object
next_hypothesis_id == "n" \o ToString(Len(generated_hypotheses) + 1)

\* one call of generate_hypothesis, the provider answering with outcome
GenerateHypothesis(outcome) ==
    /\ Len(generated_hypotheses) < MaxGenerations
    /\ LET r == generate_hypothesis(Generator, outcome, next_hypothesis_id)
       IN  /\ generated_hypotheses' = r.gen.generated_hypotheses
           /\ generation_history' = r.gen.generation_history
           /\ ret' = r.ret
    /\ call' = [kind |-> "generate_hypothesis", outcome |-> outcome]
    /\ UNCHANGED <<engineVars, normalized, nUpdates, nSince, logBase, weight, succ,
                   addedZero, enable_dynamic_hypotheses, responses, scenario_ids,
                   max_concurrent, semaphore, pc, result, calls, valid_responses, seen>>

\* one call of validate_hypothesis; it reads no field of the generator, so
\* it is exercised before the generator's first recorded hypothesis
ValidateHypothesis(hypothesis, historical_data) ==
    /\ generated_hypotheses = <<>>
    /\ LET r == validate_hypothesis(hypothesis, historical_data)
       IN  ret' = [kind |-> IF r.raised THEN "raised" ELSE "dict",
                   val |-> [validation_score |-> r.validation_score,
                            sample_size |-> r.sample_size]]
    /\ call' = [kind |-> "validate_hypothesis", hypothesis |-> hypothesis,
                historical_data |-> historical_data]
    /\ UNCHANGED <<engineVars, normalized, nUpdates, nSince, logBase, weight, succ,
                   addedZero, crawlerVars>>

NextGenerator ==
    \/ \E outcome \in ProviderOutcomes : GenerateHypothesis(outcome)
    \/ \E hypothesis \in ValidatedHypotheses : \E historical_data \in HistoricalData :
          ValidateHypothesis(hypothesis, historical_data)

SpecGenerator == InitGenerator /\ [][NextGenerator]_vars

(***************************************************************************)
(* Properties of the engine                                                *)
(***************************************************************************)
PosteriorSum(post) == RSum(Values(post))

Posterior(k) == DictGet(posterior_probabilities, k)

\* the likelihood of the i-th registered hypothesis for an observation
LikelihoodAt(i, obs) ==
    calculate_likelihood(Obj(hypotheses[i].val), obs.scenario, obs.response)

\* the sum of likelihood * current posterior over the registered hypotheses
EvidenceTotal(obs) ==
    RSum([i \in DOMAIN hypotheses |->
             RMul(LikelihoodAt(i, obs), Posterior(hypotheses[i].key))])

\* C1: after an update_beliefs call on an engine with at least one
\* hypothesis and a sum of likelihood * posterior above 0, the stored
\* posteriors and the returned mapping each sum to exactly 1, whatever the
\* posteriors summed to before the call.
C1_UpdateNormalizes ==
    [][\A obs \in Observations :
          (/\ nUpdates' = nUpdates + 1
           /\ UpdateBeliefs(obs)
           /\ hypotheses # <<>>
           /\ RLt(Zero, EvidenceTotal(obs)))
          => /\ PosteriorSum(posterior_probabilities') = One
             /\ ret'.kind = "dict"
             /\ RSum(Values(ret'.val)) = One]_vars

\* an update has normalised an engine holding o2 (0.6) and o3 (0.0), whose
\* posteriors summed to 0.6 before the call
C1_Witness ==
    /\ nSince = 1
    /\ Registered(Engine) = {"o2", "o3"}
    /\ ret.kind = "dict"
    /\ RSum(Values(ret.val)) = One

\* C2: in every reachable state the key set of posterior_probabilities
\* equals the key set of hypotheses.
C2_SameKeys == Keys(posterior_probabilities) = Keys(hypotheses)

\* a hypothesis was removed after it had been updated, and another is left
C2_Witness ==
    /\ hypotheses # <<>>
    /\ \E i \in DOMAIN evidence_log : evidence_log[i][1] \notin Keys(hypotheses)

\* C3 as stated: the posterior mapping is empty without hypotheses and sums
\* to 1 in every state with at least one hypothesis.
C3_AlwaysNormalized ==
    /\ hypotheses = <<>> => posterior_probabilities = <<>>
    /\ hypotheses # <<>> => PosteriorSum(posterior_probabilities) = One

\* C3 amended: the posterior mapping is empty without hypotheses, and with
\* at least one hypothesis it sums to 1 in every state whose last engine
\* call was an update_beliefs that normalised (total above 0).
C3_NormalizedAfterUpdate ==
    /\ hypotheses = <<>> => posterior_probabilities = <<>>
    /\ (hypotheses # <<>> /\ normalized) => PosteriorSum(posterior_probabilities) = One

\* two updates in a row have normalised two hypotheses
C3_Witness ==
    /\ normalized
    /\ nSince = 2
    /\ Len(hypotheses) = 2
    /\ PosteriorSum(posterior_probabilities) = One

\* posterior and history weight are proportional over the registered ids
Proportional(hyps, post, w) ==
    \A i, j \in DOMAIN hyps :
        RMul(DictGet(post, hyps[i].key), DictGet(w, hyps[j].key))
            = RMul(DictGet(post, hyps[j].key), DictGet(w, hyps[i].key))

\* C4: update_beliefs sets every registered hypothesis's posterior to
\* likelihood * previous posterior divided by the sum of these products,
\* never reading prior_probability; so after k updates the posterior is
\* proportional to the posterior at the start times the product of the k
\* likelihoods.
C4_SequentialBayes ==
    [][\A obs \in Observations :
          LET total == EvidenceTotal(obs)
          IN  (/\ nUpdates' = nUpdates + 1
               /\ UpdateBeliefs(obs)
               /\ hypotheses # <<>>
               /\ RLt(Zero, total))
              =>
              /\ \A i \in DOMAIN hypotheses :
                    RMul(DictGet(posterior_probabilities', hypotheses[i].key), total)
                        = RMul(LikelihoodAt(i, obs), Posterior(hypotheses[i].key))
              /\ Proportional(hypotheses', posterior_probabilities', weight')]_vars

\* two updates in a row moved both posteriors away from the priors
C4_Witness ==
    /\ nSince = 2
    /\ Registered(Engine) = {"o1", "o2"}
    /\ \A i \in DOMAIN hypotheses :
          /\ RLt(Zero, Posterior(hypotheses[i].key))
          /\ Posterior(hypotheses[i].key) # Obj(hypotheses[i].val).prior_probability
    /\ \E i \in DOMAIN weight :
          weight[i].val # posterior_probabilities[i].val

\* C9: each update_beliefs call appends one (hypothesis_id, scenario_id,
\* likelihood) entry per registered hypothesis, in insertion order, so N
\* calls over a fixed set of M hypotheses add N*M entries; with M = 0 the
\* call appends nothing and returns an empty mapping.
C9_LogAppend ==
    [][\A obs \in Observations :
          (nUpdates' = nUpdates + 1 /\ UpdateBeliefs(obs))
          => /\ Len(evidence_log') = Len(evidence_log) + Len(hypotheses)
             /\ SubSeq(evidence_log', 1, Len(evidence_log)) = evidence_log
             /\ \A i \in DOMAIN hypotheses :
                    evidence_log'[Len(evidence_log) + i]
                        = <<hypotheses[i].key, obs.scenario.scenario_id,
                            LikelihoodAt(i, obs)>>
             /\ hypotheses = <<>> => (ret'.kind = "dict" /\ ret'.val = <<>>)
             /\ Len(evidence_log') = logBase' + nSince' * Len(hypotheses')]_vars

\* two updates over the same two hypotheses left four entries
C9_Witness ==
    /\ nSince = 2
    /\ Len(hypotheses) = 2
    /\ logBase = 0
    /\ Len(evidence_log) = 4

CountMatches(hyps, count, zero, s) ==
    \A i \in DOMAIN hyps :
        zero[hyps[i].val] => count[hyps[i].val] = s[hyps[i].val]

\* C10: evidence_count of a registered hypothesis grows by exactly 1 in
\* each update_beliefs call whose total is above 0 and in no other call,
\* and reset_beliefs sets it to 0; so a hypothesis added with count 0 has a
\* count equal to the normalising updates made while it was registered
\* since the last reset_beliefs.
C10_EvidenceCount ==
    [][/\ \A obs \in Observations :
             (nUpdates' = nUpdates + 1 /\ UpdateBeliefs(obs))
             => LET counts == hypotheses # <<>> /\ RLt(Zero, EvidenceTotal(obs))
                IN  \A o \in ObjRefs :
                        evidence_count'[o] =
                            IF o \in Registered(Engine) /\ counts
                            THEN evidence_count[o] + 1
                            ELSE evidence_count[o]
       /\ (nUpdates' = nUpdates /\ ResetBeliefs)
             => \A o \in ObjRefs :
                    evidence_count'[o] =
                        IF o \in Registered(Engine) THEN 0 ELSE evidence_count[o]
       /\ (evidence_count' # evidence_count)
             => /\ \A ref \in StaticRefs : ~AddHypothesis(ref)
                /\ \A id \in HypothesisIds : ~RemoveHypothesis(id)
       /\ CountMatches(hypotheses', evidence_count', addedZero', succ')]_vars

\* a registered hypothesis counted one of two updates
C10_Witness ==
    /\ nUpdates = 2
    /\ \E o \in Registered(Engine) :
          addedZero[o] /\ evidence_count[o] = 1 /\ succ[o] = 1

\* whether two posterior mappings rank every pair of the ids in ks alike
SameOrder(post, post2, ks) ==
    \A a \in ks : \A b \in ks :
        RLt(DictGet(post, a), DictGet(post, b))
            <=> RLt(DictGet(post2, a), DictGet(post2, b))

\* the entries of a mapping other than the one of key k, in order
Without(d, k) == SelectSeq(d, LAMBDA e : e.key # k)

\* the original wording of C11: every add_hypothesis call keeps the order by
\* posterior of all previously registered hypotheses
C11_OrderPreserved ==
    [][\A ref \in StaticRefs :
          (nUpdates' = nUpdates /\ AddHypothesis(ref))
          => SameOrder(posterior_probabilities, posterior_probabilities',
                       Keys(hypotheses))]_vars

\* C11: add_hypothesis(h) registers h under its id with posterior
\* h.prior_probability and leaves the posterior of every other id, every
\* evidence_count and the evidence log unchanged, so the order by posterior
\* of the previously registered hypotheses other than the one under h's id
\* is unchanged.
C11_AddFrame ==
    [][\A ref \in StaticRefs :
          (/\ nUpdates' = nUpdates
           /\ hypotheses' # <<>>
           /\ Len(hypotheses') >= Len(hypotheses)
           /\ AddHypothesis(ref))
          => LET id == Obj(ref).hypothesis_id
                 others == Without(posterior_probabilities, id)
                 others2 == Without(posterior_probabilities', id)
             IN  /\ DictGet(hypotheses', id) = ref
                 /\ DictGet(posterior_probabilities', id) = Obj(ref).prior_probability
                 /\ Without(hypotheses', id) = Without(hypotheses, id)
                 /\ others2 = others
                 /\ evidence_count' = evidence_count
                 /\ evidence_log' = evidence_log
                 /\ \A i \in DOMAIN others : \A j \in DOMAIN others :
                        RLt(others[i].val, others[j].val)
                            <=> RLt(DictGet(posterior_probabilities', others[i].key),
                                    DictGet(posterior_probabilities', others[j].key))]_vars

\* a hypothesis was added next to one that has been updated: the posteriors
\* do not sum to 1 and only the older one has evidence
C11_Witness ==
    /\ nSince = 0
    /\ Len(hypotheses) = 2
    /\ evidence_log # <<>>
    /\ PosteriorSum(posterior_probabilities) # One
    /\ \E i \in DOMAIN hypotheses : evidence_count[hypotheses[i].val] = 0
    /\ \E i \in DOMAIN hypotheses : evidence_count[hypotheses[i].val] > 0

\* C12: remove_hypothesis(id) deletes a registered id from hypotheses and
\* posterior_probabilities and changes nothing for an unregistered one; the
\* remaining entries, every evidence_count and the whole evidence log
\* (entries of the removed hypothesis included) are unchanged.
C12_RemoveFrame ==
    [][\A id \in HypothesisIds :
          (nUpdates' = nUpdates /\ RemoveHypothesis(id))
          => /\ hypotheses' = Without(hypotheses, id)
             /\ posterior_probabilities' = Without(posterior_probabilities, id)
             /\ id \notin Keys(hypotheses')
             /\ id \notin Keys(posterior_probabilities')
             /\ id \notin Keys(hypotheses) => Engine' = Engine
             /\ evidence_count' = evidence_count
             /\ evidence_log' = evidence_log]_vars

\* a hypothesis with logged evidence was removed; its entries are still in
\* the log and another hypothesis remains
C12_Witness ==
    /\ nSince = 0
    /\ hypotheses # <<>>
    /\ Len(evidence_log) >= 2
    /\ \E i \in DOMAIN evidence_log : evidence_log[i][1] \notin Keys(hypotheses)
    /\ \E i \in DOMAIN evidence_log : evidence_log[i][1] \in Keys(hypotheses)

\* C13: after reset_beliefs every registered hypothesis has its
\* prior_probability as posterior and evidence_count 0, the evidence log is
\* empty and the registered hypotheses are the same; a second reset_beliefs
\* would change nothing.
C13_Reset ==
    [][(nUpdates' = nUpdates /\ ResetBeliefs)
       => /\ hypotheses' = hypotheses
          /\ KeySeq(posterior_probabilities') = KeySeq(posterior_probabilities)
          /\ \A i \in DOMAIN hypotheses' :
                /\ DictGet(posterior_probabilities', hypotheses'[i].key)
                       = Obj(hypotheses'[i].val).prior_probability
                /\ evidence_count'[hypotheses'[i].val] = 0
          /\ evidence_log' = <<>>
          /\ reset_beliefs(Engine') = Engine']_vars

\* a reset emptied a log that held evidence: the object o1, replaced under
\* its id before the reset, still carries its count
C13_Witness ==
    /\ nSince = 0
    /\ hypotheses # <<>>
    /\ evidence_log = <<>>
    /\ evidence_count["o1"] > 0
    /\ \A i \in DOMAIN hypotheses :
          DictGet(posterior_probabilities, hypotheses[i].key)
              = Obj(hypotheses[i].val).prior_probability

\* C14: an update_beliefs call whose normalisation total is 0 leaves the
\* posteriors, the evidence counts and the evidence log as they were.
C14_ZeroTotalNoChange ==
    [][\A obs \in Observations :
          (/\ nUpdates' = nUpdates + 1
           /\ UpdateBeliefs(obs)
           /\ EvidenceTotal(obs) = Zero)
          => /\ posterior_probabilities' = posterior_probabilities
             /\ evidence_count' = evidence_count
             /\ evidence_log' = evidence_log]_vars

(***************************************************************************)
(* Properties of calculate_likelihood                                      *)
(***************************************************************************)
Returned == call.kind = "returned"

\* the returned call reached the pattern loop: typed arguments and a
\* well-formed, non-empty table for the scenario's key
Matching ==
    /\ Returned
    /\ call.scenario.typed
    /\ call.response.typed
    /\ GetPatterns(call.hypothesis, scenario_key(call.scenario)).items # <<>>
    /\ ~GetPatterns(call.hypothesis, scenario_key(call.scenario)).malformed

\* the probability of the lowest-numbered entry of the call's table whose
\* lowercase pattern occurs in the lowercased, stripped text; 0.5 if none
FirstHit ==
    LET items == call.hypothesis.predicted_response_patterns[
                     call.scenario.domain \o "_" \o call.scenario.response_type].items
        text == Strip(Lower(call.response.raw_response))
        hits == {i \in DOMAIN items : Contains(text, Lower(items[i].pattern))}
    IN  IF hits = {} THEN Half
        ELSE items[CHOOSE i \in hits : \A j \in hits : i <= j].probability

\* C15: whatever the pattern table, the pattern probabilities and the
\* confidence score, the value calculate_likelihood returns lies in
\* [0.001, 0.999].
C15_LikelihoodRange ==
    Returned => /\ RLe(Rat(1, 1000), ret.val)
                /\ RLe(ret.val, Rat(999, 1000))

\* a negative confidence drove the blend to 0 and the floor was returned
C15_Witness ==
    /\ Matching
    /\ call.response.confidence_score = Some(Rat(-1, 1))
    /\ FirstHit = Rat(9, 10)
    /\ ret.val = Rat(1, 1000)

\* C16: with a confidence score c in [0,1] and a matched or default
\* likelihood p, the value calculate_likelihood computes lies between p and
\* 0.5 and equals p when c = 1.
C16_BlendTowardNeutral ==
    (/\ Matching
     /\ call.response.confidence_score.some
     /\ RLe(Zero, call.response.confidence_score.val)
     /\ RLe(call.response.confidence_score.val, One)
     /\ RLe(Rat(1, 1000), FirstHit)
     /\ RLe(FirstHit, Rat(999, 1000)))
    => /\ RLe(RMin(FirstHit, Half), ret.val)
       /\ RLe(ret.val, RMax(FirstHit, Half))
       /\ call.response.confidence_score.val = One => ret.val = FirstHit

\* C17: the value is computed from the probability of the first entry, in
\* insertion order, of the table stored under domain + "_" + response type
\* whose lowercase pattern is a substring of the lowercased, stripped text,
\* whatever later entries match, and from 0.5 when no entry matches.
C17_FirstMatchWins ==
    Matching
    => ret.val = Clamp(IF call.response.confidence_score.some
                       THEN Blend(FirstHit, call.response.confidence_score.val)
                       ELSE FirstHit)

\* both patterns of the table occur in the text; the first one's 0.1 was
\* used although the second carries 0.9
C17_Witness ==
    /\ Matching
    /\ GetPatterns(call.hypothesis, KeyEthical).items
           = <<Pat(TSafe, Rat(1, 10)), Pat(TYes, Rat(9, 10))>>
    /\ call.response.raw_response = TextYesSafe
    /\ call.response.confidence_score = None
    /\ ret.val = Rat(1, 10)

\* calculate_surprise for a response to s1 with the given text
SurpriseOf(text) ==
    calculate_surprise(Engine, Scenarios["s1"], LLMResponse("s1", text, None))

\* o1 gives "safe" 0.9 and o2 gives it 0.1; both are registered
SafePair == Registered(Engine) = {"o1", "o2"}

IsUpdate(e) == e[1] = "update_beliefs"

LastCall(t) == calls[t][Len(calls[t])]

Obtained(t) == response_id(t) \in Keys(responses)

\* the entries a step appended to the evidence log
Appended(log, log2) == SubSeq(log2, Len(log) + 1, Len(log2))

\* C5: every task of run_scenario that obtained a provider response makes
\* exactly one update_beliefs call, with that response, as its last engine
\* call (after the surprise check, generation, validation and admission),
\* whether or not a candidate was admitted and also when validation raised;
\* a task without a response makes none.  The finishing step appends one
\* evidence entry per registered hypothesis for the task's scenario.
C5_UpdateOncePerResponse ==
    /\ [](\A t \in Tasks :
             /\ (pc[t] = "done" /\ Obtained(t))
                    => /\ Len(SelectSeq(calls[t], IsUpdate)) = 1
                       /\ LastCall(t) = Ev("update_beliefs", response_id(t))
                       /\ result[t] = "LLMResponse"
             /\ (pc[t] # "done" \/ ~Obtained(t))
                    => /\ SelectSeq(calls[t], IsUpdate) = <<>>
                       /\ result[t] # "LLMResponse")
    /\ [][\A t \in Tasks :
             (pc[t] # "done" /\ pc'[t] = "done" /\ response_id(t) \in Keys(responses'))
             => /\ Len(evidence_log') = Len(evidence_log) + Len(hypotheses')
                /\ \A i \in DOMAIN hypotheses' :
                       /\ Appended(evidence_log, evidence_log')[i][1]
                              = hypotheses'[i].key
                       /\ Appended(evidence_log, evidence_log')[i][2]
                              = scenario_ids[t]]_vars

\* a task whose candidate's validation raised still updated and returned
\* its response
C5_Witness ==
    \E t \in Tasks :
        /\ pc[t] = "done"
        /\ result[t] = "LLMResponse"
        /\ \E i \in DOMAIN calls[t] : calls[t][i] = Ev("validate_hypothesis", "g5")
        /\ LastCall(t) = Ev("update_beliefs", response_id(t))
        /\ evidence_log # <<>>

\* the tasks inside the `async with semaphore`
Holders == {t \in Tasks : pc[t] \in {"query", "generate"}}

\* C6: at most max_concurrent tasks hold a slot, so at most that many
\* provider queries (scenario or generation) are in flight; the free slots
\* are exactly those not held, so a finished task, failed or not, holds
\* none; a task enters only while a slot is free.
C6_ConcurrencyBound ==
    /\ [](/\ Cardinality(Holders) <= max_concurrent
          /\ semaphore = max_concurrent - Cardinality(Holders)
          /\ semaphore >= 0)
    /\ [][\A t \in Tasks :
             (pc[t] = "pending" /\ pc'[t] # "pending")
             => Cardinality(Holders) < max_concurrent]_vars

\* with one slot, a task whose query failed has left and another one has
\* taken the slot
C6_Witness ==
    /\ max_concurrent = 1
    /\ semaphore = 0
    /\ \E t \in Tasks : pc[t] = "done" /\ result[t] = "None"
    /\ \E u \in Tasks : pc[u] = "query"

\* C7: a step that registers a hypothesis also makes the same task's
\* belief update (evidence entries for every hypothesis, the new one
\* included, and renormalised posteriors) and finishes that task, so no
\* state lies between an admission and its update; every step that changes
\* the engine belongs to exactly one task.
C7_AtomicAdmission ==
    /\ [](\A t \in Tasks :
             calls[t] # <<>> => LastCall(t)[1] # "add_hypothesis")
    /\ [][(Keys(hypotheses') # Keys(hypotheses))
          => \E t \in Tasks :
                /\ pc[t] = "generate"
                /\ pc'[t] = "done"
                /\ Len(evidence_log') = Len(evidence_log) + Len(hypotheses')
                /\ \A i \in DOMAIN hypotheses' :
                       Appended(evidence_log, evidence_log')[i][1] = hypotheses'[i].key
                /\ PosteriorSum(posterior_probabilities') = One
                /\ \A u \in Tasks \ {t} : pc'[u] = pc[u] /\ calls'[u] = calls[u]]_vars
    /\ [][(Engine' # Engine)
          => Cardinality({t \in Tasks : calls'[t] # calls[t]}) = 1]_vars

\* a candidate was admitted while another task was waiting on its query
C7_Witness ==
    \E t \in Tasks : \E u \in Tasks \ {t} :
        /\ pc[t] = "done"
        /\ \E i \in DOMAIN calls[t] : calls[t][i][1] = "add_hypothesis"
        /\ pc[u] \in {"query", "generate"}

Passes(ref, resps) ==
    LET validation_results ==
            validate_hypothesis(Obj(ref), historical_data_for_validation(resps))
    IN  /\ ~validation_results.raised
        /\ RLt(Rat(2, 5), validation_results.validation_score)

\* C8: the step that follows the generation of a candidate registers it
\* exactly when validate_hypothesis scored it strictly above 0.4 on the
\* responses stored so far; otherwise the hypotheses are unchanged and the
\* posteriors are those of update_beliefs on the untouched engine; no other
\* step registers a hypothesis, so a rejected candidate is never registered.
C8_AdmissionThreshold ==
    /\ [][\A t \in Tasks : \A ref \in GenRefs :
             (/\ pc[t] = "generate"
              /\ pc'[t] # "generate"
              /\ Obj(ref).hypothesis_id
                     \in Keys(generated_hypotheses') \ Keys(generated_hypotheses))
             => /\ (Obj(ref).hypothesis_id \in Keys(hypotheses'))
                        <=> Passes(ref, responses)
                /\ ~Passes(ref, responses)
                        => /\ hypotheses' = hypotheses
                           /\ posterior_probabilities' =
                                  update_beliefs(Engine, Scenarios[scenario_ids[t]],
                                                 DictGet(responses, response_id(t))
                                                ).eng.posterior_probabilities]_vars
    /\ [][Keys(hypotheses') \ Keys(hypotheses)
              \subseteq Keys(generated_hypotheses') \ Keys(generated_hypotheses)]_vars

\* the candidate scoring exactly 0.4 was rejected, one scoring 0.9 admitted
C8_Witness ==
    /\ "n3" \in Keys(generated_hypotheses)
    /\ "n3" \notin Keys(hypotheses)
    /\ "n1" \in Keys(hypotheses)

\* C29: the surprise check (is_surprising, and for a surprising response
\* get_surprise_context and the ranking, all built on calculate_surprise)
\* leaves the hypotheses, the posteriors, the evidence log and the
\* evidence counts as they were; the belief update made after an
\* unsurprising check is the update of the engine as it was before the
\* check.
C29_SurpriseReadOnly ==
    [][\A t \in Tasks :
          (/\ pc[t] = "query"
           /\ pc'[t] # "query"
           /\ enable_dynamic_hypotheses
           /\ response_id(t) \in Keys(responses'))
          => /\ pc'[t] = "generate" => UNCHANGED engineVars
             /\ pc'[t] = "done"
                    => Engine' = update_beliefs(Engine, Scenarios[scenario_ids[t]],
                                                DictGet(responses', response_id(t))).eng]_vars

\* a task checked an unsurprising response and then updated the beliefs,
\* and another one is suspended after a surprising check
C29_Witness ==
    \E t \in Tasks : \E u \in Tasks \ {t} :
        /\ pc[t] = "done"
        /\ calls[t] = <<Ev("query", scenario_ids[t]),
                        Ev("is_surprising", response_id(t)),
                        Ev("update_beliefs", response_id(t))>>
        /\ evidence_log # <<>>
        /\ pc[u] = "generate"

\* the engine after update_beliefs for observation a, then for b
Twice(E, a, b) ==
    update_beliefs(update_beliefs(E, a.scenario, a.response).eng,
                   b.scenario, b.response).eng

\* the engine after the updates of the finished tasks 1..n, taken in the
\* order of the task list
RECURSIVE InListOrder(_)
InListOrder(n) ==
    IF n = 0 THEN add_hypotheses(BayesianEngine, Values(hypotheses))
    ELSE IF pc[n] = "done" /\ result[n] = "LLMResponse"
         THEN update_beliefs(InListOrder(n - 1), Scenarios[scenario_ids[n]],
                             DictGet(responses, response_id(n))).eng
         ELSE InListOrder(n - 1)

\* the observations a task of the run can make
RunObservations ==
    UNION { { [scenario |-> Scenarios[sid], response |-> LLMResponse(sid, text, None)] :
                text \in ProviderTexts(sid) } : sid \in {"s1", "s2"} }

Admitted(t) == \E i \in DOMAIN calls[t] : calls[t][i][1] = "add_hypothesis"

\* C27: a task is suspended in the generation query only with dynamic
\* generation enabled and after its surprise check; while it is suspended
\* the engine differs from the one its surprise was computed on only when
\* max_concurrent >= 2 (another task's update or admission took effect),
\* and with fewer slots the candidate meets the engine of its surprise
\* check.
C27_InterleavedGeneration ==
    \A t \in Tasks :
        pc[t] = "generate"
        => /\ enable_dynamic_hypotheses
           /\ seen[t].checked
           /\ is_surprising(seen[t].eng, Scenarios[scenario_ids[t]],
                            DictGet(responses, response_id(t)))
           /\ seen[t].eng # Engine => max_concurrent >= 2

\* two tasks whose surprise was computed on the same engine have each
\* admitted a hypothesis, so the later one was admitted into an engine
\* that already held the other's candidate and update
C27_Witness ==
    \E t \in Tasks : \E u \in Tasks \ {t} :
        /\ pc[t] = "done" /\ pc[u] = "done"
        /\ Admitted(t) /\ Admitted(u)
        /\ seen[t].checked /\ seen[u].checked
        /\ seen[t].eng = seen[u].eng
        /\ Len(hypotheses) = Len(seen[t].eng.hypotheses) + 2
        /\ max_concurrent >= 2

\* what run_scenarios returned is, without repetition, the responses
\* stored by its tasks, every task has finished by then, and a task that
\* returned None made no belief update
ReturnsSucceeded ==
    /\ valid_responses.returned
           => /\ \A t \in Tasks : pc[t] \in {"filtered", "done"}
              /\ {valid_responses.val[i] : i \in DOMAIN valid_responses.val}
                     = {response_id(t) : t \in {u \in Tasks : Obtained(u)}}
              /\ Len(valid_responses.val)
                     = Cardinality({u \in Tasks : Obtained(u)})
    /\ \A t \in Tasks :
           (pc[t] = "done" /\ result[t] = "None")
               => /\ SelectSeq(calls[t], IsUpdate) = <<>>
                  /\ ~Obtained(t)

\* the step in which a task fails changes neither the engine nor any
\* other task
FailureIsLocal ==
    \A t \in Tasks :
        (pc[t] # "done" /\ pc'[t] = "done" /\ result'[t] = "None")
        => /\ UNCHANGED engineVars
           /\ \A u \in Tasks \ {t} : pc'[u] = pc[u] /\ result'[u] = result[u]

\* C22: run_scenarios returns exactly the responses of the tasks that
\* succeeded, a failing task contributes no result and no belief update
\* and leaves its siblings alone, and every task run_scenarios created
\* eventually finishes (each provider call returning or failing).
C22_AllTasksFinish ==
    /\ []ReturnsSucceeded
    /\ [][FailureIsLocal]_vars
    /\ \A t \in Tasks : (pc[t] # "filtered") ~> (pc[t] = "done")

\* C22, for max_concurrent >= 1: as above, and run_scenarios returns
C22_FinishWithSlots ==
    /\ []ReturnsSucceeded
    /\ [][FailureIsLocal]_vars
    /\ \A t \in Tasks :
           (pc[t] # "filtered" /\ max_concurrent >= 1) ~> (pc[t] = "done")
    /\ (max_concurrent >= 1) ~> valid_responses.returned

\* run_scenarios returned one response while the other task had failed
C22_Witness ==
    /\ valid_responses.returned
    /\ Len(valid_responses.val) = 1
    /\ \E t \in Tasks : pc[t] = "done" /\ result[t] = "None"
    /\ evidence_log # <<>>

(***************************************************************************)
(* Properties of update_beliefs over the wider observations                *)
(***************************************************************************)
\* the i-th registered hypothesis has no entry, or an empty one, for the
\* scenario-type key of the observation
NoTable(i, obs) ==
    LET patterns == Obj(hypotheses[i].val).predicted_response_patterns
        key == obs.scenario.domain \o "_" \o obs.scenario.response_type
    IN  key \notin DOMAIN patterns \/ patterns[key].items = <<>>

\* computing the i-th hypothesis's likelihood for the observation raises
\* inside calculate_likelihood
Fails(i, obs) ==
    \/ ~obs.scenario.typed
    \/ /\ ~NoTable(i, obs)
       /\ \/ ~obs.response.typed
          \/ Obj(hypotheses[i].val).predicted_response_patterns[
                 obs.scenario.domain \o "_" \o obs.scenario.response_type].malformed

\* C18: a hypothesis without a (non-empty) pattern table for the observed
\* scenario-type key is logged with likelihood exactly 0.5 whatever the text
\* and the confidence score; and when every registered hypothesis gets the
\* same likelihood, update_beliefs keeps the order by posterior, and keeps
\* the posteriors themselves if they summed to 1.
C18_NeutralWithoutTable ==
    [][\A obs \in EvidenceObservations :
          (nUpdates' = nUpdates + 1 /\ UpdateBeliefs(obs))
          => LET new == Appended(evidence_log, evidence_log')
             IN  /\ \A i \in DOMAIN hypotheses :
                        (obs.scenario.typed /\ NoTable(i, obs)) => new[i][3] = Half
                 /\ (\A i \in DOMAIN hypotheses : new[i][3] = new[1][3])
                        => /\ \A i \in DOMAIN hypotheses : \A j \in DOMAIN hypotheses :
                                  RLt(posterior_probabilities[i].val,
                                      posterior_probabilities[j].val)
                                      <=> RLt(posterior_probabilities'[i].val,
                                              posterior_probabilities'[j].val)
                           /\ PosteriorSum(posterior_probabilities) = One
                                  => posterior_probabilities' = posterior_probabilities
                 /\ KeySeq(posterior_probabilities') = KeySeq(posterior_probabilities)
         ]_vars

\* o1 and o2 saw a response to s2, for which neither has a table, with a
\* confidence score: both were logged at 0.5 and kept 0.4 and 0.6
C18_Witness ==
    /\ nSince = 1
    /\ Registered(Engine) = {"o1", "o2"}
    /\ normalized
    /\ evidence_log = <<<<"h1", "s2", Half>>, <<"h2", "s2", Half>>>>
    /\ Values(posterior_probabilities) = <<Rat(2, 5), Rat(3, 5)>>

\* C19: a failure inside calculate_likelihood (an untyped scenario or
\* response, a malformed pattern table) gives that hypothesis 0.5, and the
\* update_beliefs call returns normally: one log entry per registered
\* hypothesis, and the posteriors normalised when the total is above 0.
C19_LikelihoodNeverAborts ==
    [][\A obs \in EvidenceObservations :
          (nUpdates' = nUpdates + 1 /\ UpdateBeliefs(obs))
          => LET new == Appended(evidence_log, evidence_log')
             IN  /\ ret'.kind = "dict"
                 /\ Len(new) = Len(hypotheses)
                 /\ \A i \in DOMAIN hypotheses :
                        /\ new[i][1] = hypotheses[i].key
                        /\ Fails(i, obs) => new[i][3] = Half
                 /\ RLt(Zero, RSum([i \in DOMAIN hypotheses |->
                                       RMul(new[i][3],
                                            posterior_probabilities[i].val)]))
                        => /\ normalized'
                           /\ PosteriorSum(posterior_probabilities') = One
                           /\ \A i \in DOMAIN hypotheses :
                                  evidence_count'[hypotheses[i].val]
                                      = evidence_count[hypotheses[i].val] + 1]_vars

\* the engine holds the hypothesis with the malformed table; an update with
\* a response to s1 logged it at 0.5 next to o2's 0.1 and normalised
C19_Witness ==
    /\ nSince = 1
    /\ Registered(Engine) = {"o2", "g5"}
    /\ normalized
    /\ evidence_log = <<<<"h2", "s1", Rat(1, 10)>>, <<"n5", "s1", Half>>>>
    /\ PosteriorSum(posterior_probabilities) = One

(***************************************************************************)
(* Properties of the engine's queries                                      *)
(***************************************************************************)
\* the position of a registered object in hypotheses
PositionOf(ref) == CHOOSE i \in DOMAIN hypotheses : hypotheses[i].val = ref

\* C21: get_most_likely_hypothesis returns none exactly when nothing is
\* registered; otherwise the object it returns has a maximal posterior and
\* every hypothesis inserted before it has a strictly smaller one, so a
\* single registered hypothesis is returned; it is the first element of
\* get_hypothesis_ranking, which lists every hypothesis by descending
\* posterior with equal ones in insertion order.
C21_MostLikely ==
    LET most == get_most_likely_hypothesis(Engine)
        ranking == get_hypothesis_ranking(Engine)
    IN  /\ (most = "None") <=> (hypotheses = <<>>)
        /\ Len(ranking) = Len(hypotheses)
        /\ hypotheses # <<>>
              => /\ most \in Registered(Engine)
                 /\ \A j \in DOMAIN hypotheses :
                        /\ RLe(Posterior(hypotheses[j].key),
                               Posterior(hypotheses[PositionOf(most)].key))
                        /\ j < PositionOf(most)
                               => RLt(Posterior(hypotheses[j].key),
                                      Posterior(hypotheses[PositionOf(most)].key))
                 /\ ranking[1][1] = most
                 /\ Len(hypotheses) = 1 => most = hypotheses[1].val
        /\ \A a \in DOMAIN ranking :
              /\ ranking[a][1] \in Registered(Engine)
              /\ ranking[a][2] = Posterior(hypotheses[PositionOf(ranking[a][1])].key)
              /\ \A b \in DOMAIN ranking :
                    a < b => /\ RLe(ranking[b][2], ranking[a][2])
                             /\ ranking[b][2] = ranking[a][2]
                                    => PositionOf(ranking[a][1])
                                           < PositionOf(ranking[b][1])

\* after an update g5 and g3, registered in this order, share the largest
\* posterior, and g5 is the one returned
C21_Witness ==
    /\ nSince >= 1
    /\ KeySeq(hypotheses) = <<"n5", "n3">>
    /\ Posterior("n5") = Posterior("n3")
    /\ get_most_likely_hypothesis(Engine) = "g5"

\* C30: every posterior lies in [0, 1] in every state reached by
\* add_hypothesis (of objects with a valid prior), remove_hypothesis,
\* update_beliefs and reset_beliefs; and an update_beliefs call leaves a
\* posterior of 0 at 0.
C30_PosteriorRange ==
    /\ [](\A i \in DOMAIN posterior_probabilities :
             /\ RLe(Zero, posterior_probabilities[i].val)
             /\ RLe(posterior_probabilities[i].val, One))
    /\ [][(nUpdates' = nUpdates + 1)
          => \A i \in DOMAIN posterior_probabilities :
                posterior_probabilities[i].val = Zero
                    => /\ posterior_probabilities'[i].key
                              = posterior_probabilities[i].key
                       /\ posterior_probabilities'[i].val = Zero]_vars

\* two normalising updates ran with o3 (prior 0) next to o2: o3 is still at
\* 0 and o2 holds the whole mass
C30_Witness ==
    /\ Registered(Engine) = {"o2", "o3"}
    /\ nSince = 2
    /\ normalized
    /\ Posterior("h1") = Zero
    /\ Posterior("h2") = One


(***************************************************************************)
(* Properties of the generator                                             *)
(***************************************************************************)
Validated == call.kind = "validate_hypothesis"

\* the positions of the historical pairs for whose scenario-type key the
\* validated hypothesis has a non-empty table
Counted_Pairs ==
    LET tables == call.hypothesis.predicted_response_patterns
        KeyOf(pair) == pair.scenario.domain \o "_" \o pair.scenario.response_type
    IN  {i \in DOMAIN call.historical_data :
            /\ KeyOf(call.historical_data[i]) \in DOMAIN tables
            /\ tables[KeyOf(call.historical_data[i])].items # <<>>}

\* first-match-wins likelihood of the pair at position i
PairLikelihood(i) ==
    LET pair == call.historical_data[i]
        items == call.hypothesis.predicted_response_patterns[
                     pair.scenario.domain \o "_" \o pair.scenario.response_type].items
        text == Strip(Lower(pair.response.raw_response))
        hits == {k \in DOMAIN items : Contains(text, Lower(items[k].pattern))}
    IN  IF hits = {} THEN Half
        ELSE items[CHOOSE k \in hits : \A j \in hits : k <= j].probability

RECURSIVE SumOver(_)
SumOver(positions) ==
    IF positions = {} THEN Zero
    ELSE LET i == CHOOSE k \in positions : TRUE
         IN  RAdd(PairLikelihood(i), SumOver(positions \ {i}))

\* C26: a validate_hypothesis call that returns gives sample_size = the
\* number of historical pairs with a non-empty table for their scenario
\* type, and validation_score = the mean first-match likelihood over those
\* pairs (0.5 for a pair no pattern matches), pairs without a table being
\* skipped; with no such pair, in particular for empty historical data, it
\* returns 0.0 and 0.  It returns whenever the tables are mappings, the
\* responses carry text and, for two or more counted pairs, the mean lies
\* in [0, 1].
C26_ValidationScore ==
    Validated
    => /\ ret.kind = "dict"
              => /\ ret.val.sample_size = Cardinality(Counted_Pairs)
                 /\ Counted_Pairs = {} => ret.val.validation_score = Zero
                 /\ Counted_Pairs # {}
                        => RMul(ret.val.validation_score,
                                Rat(Cardinality(Counted_Pairs), 1))
                               = SumOver(Counted_Pairs)
       /\ Counted_Pairs = {} => ret.kind = "dict"
       /\ ret.kind = "raised"
              => \/ \E i \in Counted_Pairs :
                       \/ ~call.historical_data[i].response.typed
                       \/ call.hypothesis.predicted_response_patterns[
                              KeyEthical].malformed
                 \/ /\ Cardinality(Counted_Pairs) >= 2
                    /\ RLt(Rat(Cardinality(Counted_Pairs), 1), SumOver(Counted_Pairs))

\* of two historical pairs one had no table and was skipped; the other
\* matched the second pattern of the table only
C26_Witness ==
    /\ Validated
    /\ call.hypothesis = Obj("o2")
    /\ Len(call.historical_data) = 2
    /\ ret.kind = "dict"
    /\ ret.val.sample_size = 1
    /\ ret.val.validation_score = Rat(1, 10)

Generated == call.kind = "generate_hypothesis"

\* the numbers the reply of the last generate_hypothesis call gives as
\* confidence
GivenConfidence ==
    {c \in {Rat(0 - 1, 1), Zero, Rat(1, 10), Half, Rat(3, 4), One, Rat(2, 1)} :
        \E i \in DOMAIN call.outcome.raw_response :
            call.outcome.raw_response[i] = Member("confidence", Num(c))}

\* C24: a hypothesis returned by generate_hypothesis has prior_probability
\* 0.05 when confidence * 0.2 is below 0.05, 0.2 when it is above 0.2 and
\* confidence * 0.2 otherwise, the confidence being the number in the
\* reply or 0.5 when the reply has none; so every returned and every
\* recorded hypothesis has a prior within [0.05, 0.2].
C24_PriorClamp ==
    /\ (Generated /\ ret.kind = "hypothesis")
           => LET c == ret.val.generation_confidence
                  scaled == RMul(c, Rat(1, 5))
              IN  /\ GivenConfidence = {} => c = Half
                  /\ GivenConfidence # {} => c \in GivenConfidence
                  /\ RLt(scaled, Rat(1, 20)) => ret.val.prior_probability = Rat(1, 20)
                  /\ RLt(Rat(1, 5), scaled) => ret.val.prior_probability = Rat(1, 5)
                  /\ (RLe(Rat(1, 20), scaled) /\ RLe(scaled, Rat(1, 5)))
                         => ret.val.prior_probability = scaled
    /\ \A i \in DOMAIN generated_hypotheses :
           /\ RLe(Rat(1, 20), generated_hypotheses[i].val.prior_probability)
           /\ RLe(generated_hypotheses[i].val.prior_probability, Rat(1, 5))

\* a reply with confidence 2 gave a hypothesis with prior 0.2, after one
\* with confidence 0 that gave a prior of 0.05
C24_Witness ==
    /\ Generated
    /\ ret.kind = "hypothesis"
    /\ GivenConfidence = {Rat(2, 1)}
    /\ ret.val.prior_probability = Rat(1, 5)
    /\ Len(generated_hypotheses) = 2
    /\ generated_hypotheses[1].val.generation_confidence = Zero
    /\ generated_hypotheses[1].val.prior_probability = Rat(1, 20)

\* the reply of the last generate_hypothesis call has a token for the key
Mentions(key) ==
    \E i \in DOMAIN call.outcome.raw_response : call.outcome.raw_response[i].key = key

\* the last generate_hypothesis call had one of the listed failures: the
\* query raised or gave no or an empty reply, the reply has no braces or
\* no JSON between them, a required field is missing, the name is empty,
\* or an attribute is not a number within [0, 1]
FailedInput ==
    \/ call.outcome.kind \in {"raises", "none"}
    \/ call.outcome.raw_response = <<>>
    \/ \A i \in DOMAIN call.outcome.raw_response : call.outcome.raw_response[i] # LBrace
    \/ \A i \in DOMAIN call.outcome.raw_response : call.outcome.raw_response[i] # RBrace
    \/ call.outcome.raw_response = Braced(<<Word>>)
    \/ \E field \in required_fields : ~Mentions(field)
    \/ \E i \in DOMAIN call.outcome.raw_response :
          call.outcome.raw_response[i]
              \in {Member("name", Str("")), Member("risk_tolerance", Num(Rat(3, 2))),
                   Member("cognitive_attributes", Num(Half))}

HistoryMatches ==
    /\ Len(generated_hypotheses) = Len(generation_history)
    /\ \A i \in DOMAIN generation_history :
           generation_history[i].hypothesis_id \in Keys(generated_hypotheses)
    /\ Generated => /\ ret.kind \in {"None", "hypothesis"}
                    /\ FailedInput => ret.kind = "None"

GenerateStep ==
    call'.kind = "generate_hypothesis"
    => IF ret'.kind = "None"
       THEN UNCHANGED <<generated_hypotheses, generation_history>>
       ELSE /\ ret'.val.hypothesis_id \notin Keys(generated_hypotheses)
            /\ generated_hypotheses' =
                   Append(generated_hypotheses,
                          [key |-> ret'.val.hypothesis_id, val |-> ret'.val])
            /\ Len(generation_history') = Len(generation_history) + 1
            /\ SubSeq(generation_history', 1, Len(generation_history))
                   = generation_history
            /\ generation_history'[Len(generation_history')].hypothesis_id
                   = ret'.val.hypothesis_id

\* C23: generate_hypothesis returns none or a hypothesis, never raising;
\* it returns none when the query fails, the reply is empty, unparsable or
\* lacks a required field, or construction fails, and then leaves
\* generated_hypotheses and generation_history as they were; when it
\* returns a hypothesis it has added it under a new key and appended one
\* history record carrying that key; so the two collections always have
\* the same size and every record's hypothesis_id is a key.
C23_GenerationBookkeeping ==
    /\ []HistoryMatches
    /\ [][GenerateStep]_vars

\* after one recorded hypothesis, a reply whose attribute is out of range
\* gave none
C23_Witness ==
    /\ Generated
    /\ ret.kind = "None"
    /\ \E i \in DOMAIN call.outcome.raw_response :
           call.outcome.raw_response[i] = Member("risk_tolerance", Num(Rat(3, 2)))
    /\ Len(generated_hypotheses) = 1
    /\ Len(generation_history) = 1
    /\ generation_history[1].hypothesis_id = generated_hypotheses[1].key

\* the end of the block opened at position first: the first position at
\* which as many braces have been closed as opened (0 if there is none)
RECURSIVE BalancedEnd(_, _, _)
BalancedEnd(text, i, depth) ==
    IF i > Len(text) THEN 0
    ELSE IF text[i] = LBrace THEN BalancedEnd(text, i + 1, depth + 1)
    ELSE IF text[i] = RBrace
         THEN IF depth = 1 THEN i ELSE BalancedEnd(text, i + 1, depth - 1)
    ELSE BalancedEnd(text, i + 1, depth)

\* the first balanced {...} block of a text
FirstBalanced(text) ==
    LET opens == {i \in DOMAIN text : text[i] = LBrace}
        first == CHOOSE i \in opens : \A j \in opens : i <= j
        last == BalancedEnd(text, first, 0)
    IN  IF opens = {} THEN [found |-> FALSE, block |-> <<>>]
        ELSE IF last = 0 THEN [found |-> FALSE, block |-> <<>>]
        ELSE [found |-> TRUE, block |-> SubSeq(text, first, last)]

\* C25: when the first balanced {...} block of the reply is a well-formed
\* JSON object with the required fields, whatever prose, nested objects
\* or further braces surround it, the parsed result is that object.
C25_FirstBalancedBlock ==
    (Generated /\ call.outcome.kind = "response")
    => LET first == FirstBalanced(call.outcome.raw_response)
           object == json_loads(first.block)
       IN  (/\ first.found
            /\ object.ok
            /\ \A field \in required_fields : Has(object.data, field))
           => _parse_hypothesis_response(call.outcome.raw_response)
                  = [some |-> TRUE, data |-> object.data]

====
